---- MODULE Spec2Model ----
(***************************************************************************)
(* Candidate-resolution engine of the bump chart price comparison tool:   *)
(* identity (Part_Key) selection, price (PO) selection and price-block     *)
(* selection of the Excel reader.                                          *)
(***************************************************************************)
EXTENDS Integers, Sequences, FiniteSets, TLC

VARIABLES pk, pr, xl, run

vars == <<pk, pr, xl, run>>

(***************************************************************************)
(* Python values.  A text is a sequence of one-character strings, so that  *)
(* strip(), lower(), len() and the "in" substring test are computed.       *)
(***************************************************************************)
None == [t |-> "none"]

Str(s) == [t |-> "str", s |-> s]

Sym(a) == [t |-> "sym", a |-> a]

Num(n) == [t |-> "num", n |-> n]

\* an empty spreadsheet cell
NaN == [t |-> "nan"]

Date(d) == [t |-> "date", d |-> d]

Range(seq) == {seq[i] : i \in 1..Len(seq)}

UpperAlphabet ==
  <<"A", "B", "C", "D", "E", "F", "G", "H", "I", "J", "K", "L", "M",
     "N", "O", "P", "Q", "R", "S", "T", "U", "V", "W", "X", "Y", "Z">>

LowerAlphabet ==
  <<"a", "b", "c", "d", "e", "f", "g", "h", "i", "j", "k", "l", "m",
     "n", "o", "p", "q", "r", "s", "t", "u", "v", "w", "x", "y", "z">>

LowerOf ==
  [c \in Range(UpperAlphabet) |-> LowerAlphabet[CHOOSE i \in 1..26 : UpperAlphabet[i] = c]]

LowerChar(c) == IF c \in DOMAIN LowerOf THEN LowerOf[c] ELSE c

Lower(s) == [i \in 1..Len(s) |-> LowerChar(s[i])]

RECURSIVE LStrip(_)
LStrip(s) == IF s # <<>> /\ Head(s) = " " THEN LStrip(Tail(s)) ELSE s

RECURSIVE RStrip(_)
RStrip(s) ==
  IF s # <<>> /\ s[Len(s)] = " " THEN RStrip(SubSeq(s, 1, Len(s) - 1)) ELSE s

Strip(s) == RStrip(LStrip(s))

\* Python's  a in b  on two texts
IsSubstr(a, b) ==
  \E i \in 0..(Len(b) - Len(a)) : SubSeq(b, i + 1, i + Len(a)) = a

Abs(n) == IF n < 0 THEN -n ELSE n

DigitVal(c) ==
  CASE c = "0" -> 0 [] c = "1" -> 1 [] c = "2" -> 2 [] c = "3" -> 3
    [] c = "4" -> 4 [] c = "5" -> 5 [] c = "6" -> 6 [] c = "7" -> 7
    [] c = "8" -> 8 [] c = "9" -> 9 [] OTHER -> -1

DigitChar(d) ==
  CASE d = 0 -> "0" [] d = 1 -> "1" [] d = 2 -> "2" [] d = 3 -> "3"
    [] d = 4 -> "4" [] d = 5 -> "5" [] d = 6 -> "6" [] d = 7 -> "7"
    [] d = 8 -> "8" [] OTHER -> "9"

IsDigits(s) == s # <<>> /\ \A i \in 1..Len(s) : DigitVal(s[i]) >= 0

RECURSIVE DigitsValue(_)
DigitsValue(s) ==
  IF s = <<>> THEN 0
  ELSE 10 * DigitsValue(SubSeq(s, 1, Len(s) - 1)) + DigitVal(s[Len(s)])

RECURSIVE NatDigits(_)
NatDigits(n) ==
  IF n < 10 THEN <<DigitChar(n)>>
  ELSE NatDigits(n \div 10) \o <<DigitChar(n % 10)>>

\* str(v) of a JSON/cell value
PyStr(v) ==
  CASE v.t = "none" -> <<"N", "o", "n", "e">>
    [] v.t = "nan" -> <<"n", "a", "n">>
    [] v.t = "date" -> NatDigits(v.d) \o <<"-">>
    [] v.t = "str" -> v.s
    [] v.t = "num" -> IF v.n < 0 THEN <<"-">> \o NatDigits(-v.n) ELSE NatDigits(v.n)

\* headers.index(name): 1-based position of the first occurrence, 0 for ValueError
Index(seq, name) ==
  IF \E i \in 1..Len(seq) : seq[i] = name
  THEN CHOOSE i \in 1..Len(seq) : seq[i] = name /\ \A j \in 1..(i - 1) : seq[j] # name
  ELSE 0

\* all orderings without repetition of exactly n members of S
RECURSIVE InjectiveOfLen(_, _)
InjectiveOfLen(S, n) ==
  IF n = 0 THEN {<<>>}
  ELSE UNION {{Append(q, e) : e \in S \ Range(q)} : q \in InjectiveOfLen(S, n - 1)}

\* all orderings without repetition of at most n members of S
InjectiveSeqs(S, n) == UNION {InjectiveOfLen(S, k) : k \in 0..n}

(***************************************************************************)
(* Identity resolution: plex_api._select_part_key_from_rows                *)
(***************************************************************************)
MaxIdRows == 3

status_order == <<"Service", "Production", "Prototype", "Development", "Obsolete">>

\* float(x) of a revision cell: [ok, v]
ToFloat(v) ==
  CASE v.t = "num" -> [ok |-> TRUE, v |-> v.n]
    [] v.t = "str" ->
         IF IsDigits(Strip(v.s)) THEN [ok |-> TRUE, v |-> DigitsValue(Strip(v.s))]
         ELSE [ok |-> FALSE, v |-> 0]
    [] OTHER -> [ok |-> FALSE, v |-> 0]

\* revision_val; inf marks -float("inf")
revision_val(cell) ==
  IF cell = None \/ cell = Str(<<>>) THEN [inf |-> TRUE, v |-> 0]
  ELSE IF ToFloat(cell).ok THEN [inf |-> FALSE, v |-> ToFloat(cell).v]
       ELSE [inf |-> TRUE, v |-> 0]

\* sort_key with the revision ascending
sort_key_swapped(row, status_idx, revision_idx) ==
  LET status_val == IF row[status_idx] = None THEN "" ELSE row[status_idx].a
      rev == revision_val(row[revision_idx])
      rank == IF Index(status_order, status_val) # 0
              THEN Index(status_order, status_val) - 1
              ELSE Len(status_order)
  IN  [rank |-> rank, inf |-> rev.inf, neg |-> rev.v]

\* (rank, -revision_val); inf marks +float("inf")
sort_key(row, status_idx, revision_idx) ==
  LET status_val == IF row[status_idx] = None THEN "" ELSE row[status_idx].a
      rev == revision_val(row[revision_idx])
      rank == IF Index(status_order, status_val) # 0
              THEN Index(status_order, status_val) - 1
              ELSE Len(status_order)
  IN  [rank |-> rank, inf |-> rev.inf, neg |-> 0 - rev.v]

\* tuple comparison  a < b  of two sort keys
KeyLess(a, b) ==
  \/ a.rank < b.rank
  \/ /\ a.rank = b.rank
     /\ \/ ~a.inf /\ b.inf
        \/ ~a.inf /\ ~b.inf /\ a.neg < b.neg

\* sorted(candidate_rows, key=sort_key): stable, an element goes before the
\* first element whose key is strictly greater
RECURSIVE SortedInsert(_, _, _, _)
SortedInsert(done, row, status_idx, revision_idx) ==
  IF done = <<>> THEN <<row>>
  ELSE IF KeyLess(sort_key(row, status_idx, revision_idx),
                  sort_key(Head(done), status_idx, revision_idx))
       THEN <<row>> \o done
       ELSE <<Head(done)>> \o SortedInsert(Tail(done), row, status_idx, revision_idx)

RECURSIVE sorted(_, _, _)
sorted(rows, status_idx, revision_idx) ==
  IF rows = <<>> THEN <<>>
  ELSE SortedInsert(sorted(SubSeq(rows, 1, Len(rows) - 1), status_idx, revision_idx),
                    rows[Len(rows)], status_idx, revision_idx)

candidate_rows_widened(matching_rows, rows, enforce_customer) ==
  IF matching_rows # <<>> THEN matching_rows ELSE rows

candidate_rows(matching_rows, rows, enforce_customer) ==
  IF enforce_customer THEN matching_rows
  ELSE IF matching_rows # <<>> THEN matching_rows ELSE rows

select_part_key_from_rows(rows, headers, customer_code, enforce_customer) ==
  LET part_key_idx == Index(headers, "Part_Key")
      status_idx == Index(headers, "Part_Status")
      revision_idx == Index(headers, "Revision")
      cust_code_idx == Index(headers, "Customer_Code")
      Matches(row) == Lower(Strip(PyStr(row[cust_code_idx]))) = customer_code
      matching_rows == IF customer_code # <<>> THEN SelectSeq(rows, Matches) ELSE <<>>
      cands == candidate_rows(matching_rows, rows, enforce_customer)
  IN  IF rows = <<>> \/ headers = <<>> THEN [part_key |-> None, status |-> ""]
      ELSE IF 0 \in {part_key_idx, status_idx, revision_idx, cust_code_idx}
           THEN [part_key |-> None, status |-> ""]
      ELSE IF cands = <<>> THEN [part_key |-> None, status |-> ""]
      ELSE [part_key |-> sorted(cands, status_idx, revision_idx)[1][part_key_idx],
            status |-> ""]

\* the identity source's answer: candidates laid out in the column order it sends
IdColumns == {"Part_Key", "Part_Status", "Revision", "Customer_Code", "Part_No"}

IdCand(key, st, rev, cust) ==
  [c \in IdColumns |->
     CASE c = "Part_Key" -> Str(key)
       [] c = "Part_Status" -> st
       [] c = "Revision" -> rev
       [] c = "Customer_Code" -> cust
       [] OTHER -> Num(7)]

IdPool ==
  { IdCand(<<"K", "1">>, Sym("Service"), Num(2), Str(<<"l">>)),
    IdCand(<<"K", "2">>, Sym("Production"), Num(5), Str(<<"L", " ">>)),
    IdCand(<<"K", "3">>, Sym("Obsolete"), Num(1), Str(<<"l">>)),
    IdCand(<<"K", "4">>, Sym("Service"), Str(<<"1", "2">>), Str(<<" ", "l">>)),
    IdCand(<<"K", "5">>, Sym("Service"), Num(2), Str(<<"l">>)),
    IdCand(<<"K", "6">>, Sym("Scrapped"), None, Str(<<"a">>)),
    IdCand(<<"K", "7">>, None, Str(<<"x">>), Str(<<"A">>)),
    IdCand(<<"K", "8">>, Sym("Production"), Str(<<>>), None) }

IdHeaders ==
  { <<"Part_Key", "Part_Status", "Revision", "Customer_Code">>,
    <<"Customer_Code", "Part_No", "Revision", "Part_Key", "Part_Status">>,
    <<"Part_Key", "Part_Status", "Customer_Code">>,
    <<>> }

IdCustomerCodes == { <<>>, <<"l">>, <<" ", "L">>, <<"a">>, <<"n", "o", "n", "e">>, <<"c">> }

RowOf(cand, headers) == [i \in 1..Len(headers) |-> cand[headers[i]]]

RowsOf(cands, headers) == [i \in 1..Len(cands) |-> RowOf(cands[i], headers)]

\* (customer_code_raw or "").strip().lower()
normalized_customer(customer_code_raw) == Lower(Strip(customer_code_raw))

\* retrieve_part_key entered with a query answer (cands laid out under headers) pending
PkCall(cands, headers, customer_code_raw) ==
  [pc |-> "call", cands |-> cands, headers |-> headers,
   customer_code_raw |-> customer_code_raw, part_key |-> None, status |-> ""]

PkIdle ==
  [pc |-> "idle", cands |-> <<>>, headers |-> <<>>, customer_code_raw |-> <<>>,
   part_key |-> None, status |-> ""]

\* retrieve_part_key: the customer code is normalised and the query's rows are ranked
SelectPartKey ==
  /\ pk.pc = "call"
  /\ LET res == select_part_key_from_rows(RowsOf(pk.cands, pk.headers), pk.headers,
                                          normalized_customer(pk.customer_code_raw), TRUE)
     IN  pk' = [pk EXCEPT !.pc = "done", !.part_key = res.part_key,
                          !.status = res.status]
  /\ UNCHANGED <<pr, xl, run>>

(***************************************************************************)
(* Price resolution: plex_api.query_price_api, _select_price_from_rows,    *)
(* _fuzzy_match_customer, _pick_best_price_row.  A datetime is a number of *)
(* ticks; TicksPerDay of them make a calendar day.                         *)
(***************************************************************************)
MaxPriceRows == 3

TicksPerDay == 2

\* f"{selected_date:%Y-%m-%d}": the calendar day, time of day dropped
FormatDate(d) == d \div TicksPerDay

St(msg) == [msg |-> msg]

OldPriceFrom(d) == [msg |-> "Old Price from", day |-> FormatDate(d)]

NoPOsUnder(customer_name) == [msg |-> "No PO's under", name |-> customer_name]

NoMatch == [some |-> FALSE, s |-> <<>>]

\* the loop body's test of _fuzzy_match_customer, on target and cand_l
fuzzy_test(target, cand_l) ==
  /\ IsSubstr(target, cand_l) \/ IsSubstr(cand_l, target)
  /\ Abs(Len(target) - Len(cand_l)) <= 2

\* for cand in candidates, in the set's iteration order
RECURSIVE fuzzy_loop(_, _)
fuzzy_loop(target, order) ==
  IF order = <<>> THEN NoMatch
  ELSE IF fuzzy_test(target, Strip(Lower(Head(order))))
       THEN [some |-> TRUE, s |-> Head(order)]
       ELSE fuzzy_loop(target, Tail(order))

fuzzy_match_customer(target, order) == fuzzy_loop(Strip(Lower(target)), order)

\* row_date of _pick_best_price_row: pd.to_datetime(..., errors="coerce")
row_date(cell) ==
  IF cell.t = "date" THEN [some |-> TRUE, d |-> cell.d] ELSE [some |-> FALSE, d |-> 0]

\* abs(float(row[price_idx]) - chart_price), inf when float() raises
price_gap(row, price_idx, chart_price) ==
  IF ToFloat(row[price_idx]).ok
  THEN [inf |-> FALSE, v |-> Abs(ToFloat(row[price_idx]).v - chart_price)]
  ELSE [inf |-> TRUE, v |-> 0]

GapLess(a, b) == ~a.inf /\ (b.inf \/ a.v < b.v)

\* min(candidates, key=price_gap): the first of the smallest
RECURSIVE MinBy(_, _, _, _)
MinBy(best, rest, price_idx, chart_price) ==
  IF rest = <<>> THEN best
  ELSE IF GapLess(price_gap(Head(rest), price_idx, chart_price),
                  price_gap(best, price_idx, chart_price))
       THEN MinBy(Head(rest), Tail(rest), price_idx, chart_price)
       ELSE MinBy(best, Tail(rest), price_idx, chart_price)

closest(candidates, price_idx, chart_price) ==
  IF Len(candidates) > 1
  THEN MinBy(Head(candidates), Tail(candidates), price_idx, chart_price)
  ELSE candidates[1]

SetMax(S) == CHOOSE m \in S : \A n \in S : n <= m

SetMin(S) == CHOOSE m \in S : \A n \in S : m <= n

NoRow == <<>>

is_future_never(rd, today) == FALSE

\* if row_date and row_date > today: continue
is_future(rd, today) == rd.some /\ rd.d > today

is_older_never(rd, start_threshold) == FALSE

\* start_threshold and row_date is not None and row_date < start_threshold
is_older(rd, start_threshold) == start_threshold.some /\ rd.some /\ rd.d < start_threshold.d

oldest_date_latest(dates) == SetMax(dates)

oldest_date(dates) == SetMin(dates)

best_date_earliest(dates) == SetMin(dates)

best_date(dates) == SetMax(dates)

pick_best_price_row(rows, price_idx, date_idx, chart_price, start_threshold, today) ==
  LET rd(row) == row_date(row[date_idx])
      IsRecent(row) == ~is_future(rd(row), today) /\ ~is_older(rd(row), start_threshold)
      IsOlder(row) == ~is_future(rd(row), today) /\ is_older(rd(row), start_threshold)
      usable_recent == SelectSeq(rows, IsRecent)
      older_rows == SelectSeq(rows, IsOlder)
      recent_dates == {rd(usable_recent[i]).d : i \in {j \in 1..Len(usable_recent) : rd(usable_recent[j]).some}}
      older_dates == {rd(older_rows[i]).d : i \in 1..Len(older_rows)}
      OnBest(row) == rd(row).some /\ rd(row).d = best_date(recent_dates)
      OnOldest(row) == rd(row).d = oldest_date(older_dates)
  IN  IF rows = <<>> THEN [row |-> NoRow, date |-> [some |-> FALSE, d |-> 0], old |-> FALSE]
      ELSE IF usable_recent # <<>>
      THEN IF recent_dates # {}
           THEN [row |-> closest(SelectSeq(usable_recent, OnBest), price_idx, chart_price),
                 date |-> [some |-> TRUE, d |-> best_date(recent_dates)], old |-> FALSE]
           ELSE [row |-> closest(usable_recent, price_idx, chart_price),
                 date |-> [some |-> FALSE, d |-> 0], old |-> FALSE]
      ELSE IF older_rows # <<>>
      THEN [row |-> closest(SelectSeq(older_rows, OnOldest), price_idx, chart_price),
            date |-> [some |-> TRUE, d |-> oldest_date(older_dates)], old |-> TRUE]
      ELSE [row |-> NoRow, date |-> [some |-> FALSE, d |-> 0], old |-> FALSE]

\* datetime.fromisoformat(date_begin_str...) or None
start_threshold_of(date_begin_str) ==
  IF date_begin_str.t = "iso" THEN [some |-> TRUE, d |-> date_begin_str.d]
  ELSE [some |-> FALSE, d |-> 0]

PriceResult(api_price, status, po_no, selected_row, matched) ==
  [api_price |-> api_price, status |-> status, po_no |-> po_no,
   selected_row |-> selected_row, matched_customer |-> matched]

no_selection_zero(chart_price, status, matched) ==
  PriceResult(Num(0), status, Str(<<>>), NoRow, matched)

\* return chart_price, <status>, ""  (api_price = chart_price, po_no = "")
no_selection(chart_price, status, matched) ==
  PriceResult(Num(chart_price), status, Str(<<>>), NoRow, matched)

\* rows kept by the customer filter of _select_price_from_rows
filtered_rows(rows, matched_customer, cust_name_idx) ==
  LET Keep(row) ==
        LET api_cust == Lower(Strip(PyStr(row[cust_name_idx])))
        IN  /\ IsSubstr(matched_customer.s, api_cust) \/ IsSubstr(api_cust, matched_customer.s)
            /\ Abs(Len(api_cust) - Len(matched_customer.s)) <= 2
  IN  IF matched_customer.some /\ matched_customer.s # <<>>
      THEN SelectSeq(rows, Keep)
      ELSE rows

select_price_from_rows(rows, headers, customer_name, order, chart_price, date_begin_str, today) ==
  LET cust_name_idx == Index(headers, "Customer_Name")
      price_idx == Index(headers, "Unit_Price")
      date_idx == Index(headers, "Require_Ship_Date")
      po_no_idx == Index(headers, "PO_No")
      start_threshold == start_threshold_of(date_begin_str)
      matched_customer == IF customer_name # <<>>
                          THEN fuzzy_match_customer(customer_name, order)
                          ELSE NoMatch
      matched == matched_customer.some /\ matched_customer.s # <<>>
      kept == filtered_rows(rows, matched_customer, cust_name_idx)
      pick == pick_best_price_row(kept, price_idx, date_idx, chart_price,
                                  start_threshold, today)
  IN  IF 0 \in {cust_name_idx, price_idx, date_idx}
      THEN no_selection(chart_price, St("PO API missing required columns"), NoMatch)
      ELSE IF kept = <<>>
      THEN IF matched
           THEN no_selection(chart_price, NoPOsUnder(customer_name), matched_customer)
           ELSE no_selection(chart_price, St("No PO's exist yet"), matched_customer)
      ELSE IF pick.row = NoRow
      THEN no_selection(chart_price, St("No suitable PO found"), matched_customer)
      ELSE PriceResult(pick.row[price_idx],
                       IF pick.old /\ pick.date.some THEN OldPriceFrom(pick.date.d)
                       ELSE St("Success"),
                       IF po_no_idx # 0 THEN pick.row[po_no_idx] ELSE Str(<<>>),
                       pick.row, matched_customer)

\* query_price_api on a response of the price source
query_price_api(resp, rows, headers, customer_name, order, chart_price, date_begin_str, today) ==
  CASE resp = "200" ->
         IF rows = <<>> \/ headers = <<>>
         THEN no_selection(chart_price, St("No PO's exist yet"), NoMatch)
         ELSE select_price_from_rows(rows, headers, customer_name, order,
                                     chart_price, date_begin_str, today)
    [] resp = "500" ->
         no_selection(chart_price, St("PO API error: 500"), NoMatch)
    [] resp = "timeout" ->
         no_selection(chart_price, St("Timed Out"), NoMatch)
    [] OTHER ->
         no_selection(chart_price, St("PO API exception"), NoMatch)

\* the price source's answer: candidates laid out in the column order it sends
PriceColumns == {"Customer_Name", "Unit_Price", "Require_Ship_Date", "PO_No", "Part_Key"}

PriceCand(name, price, date, po) ==
  [c \in PriceColumns |->
     CASE c = "Customer_Name" -> name
       [] c = "Unit_Price" -> price
       [] c = "Require_Ship_Date" -> date
       [] c = "PO_No" -> Str(po)
       [] OTHER -> Str(<<"K", "1">>)]

NameAbc == <<"a", "b", "c">>

NameAbcd == <<"a", "b", "c", "d">>

NameAbcdef == <<"a", "b", "c", "d", "e", "f">>

PricePool ==
  { PriceCand(Str(NameAbc), Num(10), Date(12), <<"P", "1">>),
    PriceCand(Str(NameAbc), Num(12), Date(12), <<"P", "2">>),
    PriceCand(Str(<<"A", "B", "C", " ">>), Num(12), Date(10), <<"P", "3">>),
    PriceCand(Str(NameAbc), Str(<<"1", "1">>), Date(7), <<"P", "4">>),
    PriceCand(Str(NameAbc), Num(10), Date(4), <<"P", "5">>),
    PriceCand(Str(NameAbcdef), Num(12), Date(4), <<"P", "6">>),
    PriceCand(Str(NameAbc), Num(11), Date(18), <<"P", "7">>),
    PriceCand(Str(NameAbc), Str(<<"x">>), None, <<"P", "8">>),
    PriceCand(Str(NameAbcdef), Num(10), Str(<<"x">>), <<"P", "9">>),
    PriceCand(None, Num(11), Date(5), <<"P", "0">>) }

PriceHeadersStd == <<"Customer_Name", "Unit_Price", "Require_Ship_Date", "PO_No">>

PriceHeadersOther ==
  { <<"Part_Key", "Require_Ship_Date", "Unit_Price", "Customer_Name">>,
    <<"PO_No", "Customer_Name", "Unit_Price">>,
    <<>> }

\* (customer_name, all_customer_names) as compare_prices passes them
PriceCustomers ==
  { [customer_name |-> <<>>, names |-> {NameAbc, NameAbcd}],
    [customer_name |-> <<"A", "b", "c">>, names |-> {NameAbc}],
    [customer_name |-> <<"A", "b", "c">>, names |-> {NameAbc, NameAbcd}],
    [customer_name |-> <<"c", "c">>, names |-> {NameAbc, NameAbcd}],
    [customer_name |-> <<"c", "c">>, names |-> {}] }

ChartPrices == {10, 11}

MonthStart == [t |-> "iso", d |-> 10]

Todays == {17}

PrIdle == [pc |-> "idle"]

NoResult == PriceResult(Num(0), St(""), Str(<<>>), NoRow, NoMatch)

PrCall(resp, cands, headers, cust, chart_price, date_begin_str, today) ==
  [pc |-> "call", resp |-> resp, cands |-> cands, headers |-> headers,
   customer_name |-> cust.customer_name, names |-> cust.names,
   chart_price |-> chart_price, date_begin_str |-> date_begin_str, today |-> today,
   res |-> NoResult, res2 |-> NoResult]

PrCalls ==
  \/ \E cands \in InjectiveSeqs(PricePool, MaxPriceRows), cust \in PriceCustomers,
        chart_price \in ChartPrices, today \in Todays :
       pr = PrCall("200", cands, PriceHeadersStd, cust, chart_price, MonthStart, today)
  \/ \E cands \in InjectiveSeqs(PricePool, MaxPriceRows),
        headers \in PriceHeadersOther \cup {PriceHeadersStd},
        cust \in {c \in PriceCustomers : c.customer_name = <<>>},
        date_begin_str \in {Str(<<>>), MonthStart}, today \in Todays :
       pr = PrCall("200", cands, headers, cust, 11, date_begin_str, today)
  \/ \E resp \in {"500", "timeout", "exception"}, cust \in PriceCustomers,
        chart_price \in ChartPrices, today \in Todays :
       pr = PrCall(resp, <<>>, <<>>, cust, chart_price, MonthStart, today)

\* iteration orders of a Python set
Enumerations(S) == {q \in InjectiveSeqs(S, Cardinality(S)) : Len(q) = Cardinality(S)}

PrRun(order) ==
  query_price_api(pr.resp, RowsOf(pr.cands, pr.headers), pr.headers, pr.customer_name,
                  order, pr.chart_price, pr.date_begin_str, pr.today)

\* one call of query_price_api
QueryPriceApi ==
  /\ pr.pc = "call"
  /\ \E order \in Enumerations(pr.names) : pr' = [pr EXCEPT !.pc = "done", !.res = PrRun(order)]
  /\ UNCHANGED <<pk, xl, run>>

\* the same call in another run of the program (the set is rebuilt, its
\* iteration order is whatever string hashing gives that run)
QueryPriceApiAgain ==
  /\ pr.pc = "done"
  /\ \E order \in Enumerations(pr.names) : pr' = [pr EXCEPT !.pc = "again", !.res2 = PrRun(order)]
  /\ UNCHANGED <<pk, xl, run>>

(***************************************************************************)
(* Excel reader: readers._find_main_table_header, _find_price_blocks,      *)
(* _select_price_column, _find_most_recent_price, _extract_parts_from_rows.*)
(* A sheet is a sequence of rows of cells; rows and columns count from 1,  *)
(* 0 stands for None.  A date is a day number, a price a number of         *)
(* hundredths.                                                             *)
(***************************************************************************)
TxtPartNumber == <<"p", "a", "r", "t", " ", "n", "u", "m", "b", "e", "r">>

TxtPartDescription == <<"p", "a", "r", "t", " ", "d", "e", "s", "c", "r", "i", "p", "t", "i", "o", "n">>

TxtPlexCustomerCode == <<"p", "l", "e", "x", " ", "c", "u", "s", "t", "o", "m", "e", "r", " ", "c", "o", "d", "e">>

PRICE_COLUMN_PRIORITIES ==
  << <<"d", "d", "p", " ", "p", "r", "i", "c", "e">>,
     <<"f", "c", "a", " ", "p", "r", "i", "c", "e">> >>

CUSTOM_PRICE_COLUMN_MAP ==
  << [key |-> <<"l", "e", "a", "r">>, header |-> <<"f", "a", "c", "t", "o", "r", "y", " ", "z", "e", "r", "o">>],
     [key |-> <<"a", "d", "i", "e", "n", "t">>, header |-> <<"l", "a", "n", "s", "i", "n", "g">>],
     [key |-> <<"m", "a", "g", "n", "a">>, header |-> <<"s", "p", "r", "i", "n", "g", "h", "i", "l", "l">>] >>

DEFAULT_PCN_TEXT == <<"9", "5", "5", "0", "6">>

\* row.astype(str).str.strip().tolist()
RECURSIVE header_values_of(_)
header_values_of(row) ==
  IF row = <<>> THEN <<>>
  ELSE <<Strip(PyStr(Head(row)))>> \o header_values_of(Tail(row))

LowerAll(values) == [i \in 1..Len(values) |-> Lower(values[i])]

\* the least member of a set of column numbers, 0 when it is empty
LeastOrZero(cols) ==
  IF cols = {} THEN 0 ELSE CHOOSE j \in cols : \A i \in cols : j <= i

\* the least j in lo..hi with P(j), 0 when there is none
FirstCol(lo, hi, P(_)) == LeastOrZero({j \in lo..hi : P(j)})

find_main_table_header_loose(df) ==
  LET IsHeader(i) == TxtPartNumber \in Range(LowerAll(header_values_of(df[i])))
  IN  FirstCol(1, Len(df), IsHeader)

find_main_table_header(df) ==
  LET IsHeader(i) ==
        /\ TxtPartNumber \in Range(LowerAll(header_values_of(df[i])))
        /\ TxtPartDescription \in Range(LowerAll(header_values_of(df[i])))
  IN  FirstCol(1, Len(df), IsHeader)

\* for priority in PRICE_COLUMN_PRIORITIES: first column equal to it
RECURSIVE exact_match(_, _, _)
exact_match(priorities, header_lower, start_idx) ==
  IF priorities = <<>> THEN 0
  ELSE LET Eq(j) == header_lower[j] = Head(priorities)
           j == FirstCol(start_idx, Len(header_lower), Eq)
       IN  IF j # 0 THEN j ELSE exact_match(Tail(priorities), header_lower, start_idx)

\* for priority in PRICE_COLUMN_PRIORITIES: first column containing it
RECURSIVE contains_match(_, _, _)
contains_match(priorities, header_lower, start_idx) ==
  IF priorities = <<>> THEN 0
  ELSE LET In(j) == IsSubstr(Head(priorities), header_lower[j])
           j == FirstCol(start_idx, Len(header_lower), In)
       IN  IF j # 0 THEN j ELSE contains_match(Tail(priorities), header_lower, start_idx)

find_price_column(header_values, part_col_idx) ==
  LET header_lower == LowerAll(header_values)
      exact == exact_match(PRICE_COLUMN_PRIORITIES, header_lower, part_col_idx + 1)
  IN  IF exact # 0 THEN exact
      ELSE contains_match(PRICE_COLUMN_PRIORITIES, header_lower, part_col_idx + 1)

NoDate == [some |-> FALSE, d |-> 0]

\* pd.to_datetime(cell, errors="coerce").date(): a number is nanoseconds
\* after 1970-01-01 (day 0), other text and empty cells give NaT
to_date(cell) ==
  CASE cell.t = "date" -> [some |-> TRUE, d |-> cell.d]
    [] cell.t = "num" -> [some |-> TRUE, d |-> 0]
    [] OTHER -> NoDate

RECURSIVE find_date_above(_, _, _)
find_date_above(df, header_row, col_idx) ==
  IF header_row <= 1 THEN NoDate
  ELSE IF to_date(df[header_row - 1][col_idx]).some
       THEN to_date(df[header_row - 1][col_idx])
       ELSE find_date_above(df, header_row - 1, col_idx)

\* the blocks declared in row i, left to right
blocks_of_row(df, i) ==
  LET header_values == header_values_of(df[i])
      header_lower == LowerAll(header_values)
      cols == SelectSeq([j \in 1..Len(header_lower) |-> j],
                        LAMBDA j : header_lower[j] = TxtPartNumber)
  IN  [n \in 1..Len(cols) |->
         [header_row |-> i, header_values |-> header_values, part_col |-> cols[n],
          default_price_col |-> find_price_column(header_values, cols[n]),
          date |-> find_date_above(df, i, cols[n])]]

RECURSIVE blocks_upto(_, _)
blocks_upto(df, i) ==
  IF i = 0 THEN <<>> ELSE blocks_upto(df, i - 1) \o blocks_of_row(df, i)

find_price_blocks(df, start_table_row) == blocks_upto(df, Len(df))

\* for key, mapped_header in CUSTOM_PRICE_COLUMN_MAP.items()
RECURSIVE map_loop(_, _)
map_loop(items, customer_lower) ==
  IF items = <<>> THEN [some |-> FALSE, s |-> <<>>]
  ELSE IF IsSubstr(Lower(Head(items).key), customer_lower)
       THEN [some |-> TRUE, s |-> Head(items).header]
       ELSE map_loop(Tail(items), customer_lower)

map_customer_to_header(customer_name) == map_loop(CUSTOM_PRICE_COLUMN_MAP, Lower(customer_name))

select_price_column_unmapped(header_values, part_col_idx, customer_name) ==
  find_price_column(header_values, part_col_idx)

\* customer_name: [some, s], some = FALSE for None
select_price_column(header_values, part_col_idx, customer_name) ==
  LET header_lower == LowerAll(header_values)
      start_idx == part_col_idx + 1
      mapped_header == IF customer_name.some /\ customer_name.s # <<>>
                       THEN map_customer_to_header(customer_name.s)
                       ELSE [some |-> FALSE, s |-> <<>>]
      Has(j) == IsSubstr(Lower(mapped_header.s), header_lower[j])
      mapped_col == IF mapped_header.some /\ mapped_header.s # <<>>
                    THEN FirstCol(start_idx, Len(header_lower), Has)
                    ELSE 0
      exact == exact_match(PRICE_COLUMN_PRIORITIES, header_lower, start_idx)
  IN  IF mapped_col # 0 THEN mapped_col
      ELSE IF exact # 0 THEN exact
      ELSE contains_match(PRICE_COLUMN_PRIORITIES, header_lower, start_idx)

RemoveChar(text, c) == SelectSeq(text, LAMBDA x : x # c)

Unsigned(text) == IF text # <<>> /\ Head(text) \in {"-", "+"} THEN Tail(text) ELSE text

Signed(text, v) == IF text # <<>> /\ Head(text) = "-" THEN 0 - v ELSE v

\* int(str(part_number).strip())
parse_int(cell) ==
  LET text == Strip(PyStr(cell))
  IN  IF IsDigits(Unsigned(text))
      THEN [ok |-> TRUE, v |-> Signed(text, DigitsValue(Unsigned(text)))]
      ELSE [ok |-> FALSE, v |-> 0]

\* the hundredths written by at most two decimals
Hundredths(frac) ==
  IF frac = <<>> THEN 0
  ELSE IF Len(frac) = 1 THEN 10 * DigitVal(frac[1])
  ELSE 10 * DigitVal(frac[1]) + DigitVal(frac[2])

\* float(str(price).replace("$", "").replace(",", "").strip())
parse_price(cell) ==
  LET text == Strip(RemoveChar(RemoveChar(PyStr(cell), "$"), ","))
      body == Unsigned(text)
      dot == Index(body, ".")
      whole == IF dot = 0 THEN body ELSE SubSeq(body, 1, dot - 1)
      frac == IF dot = 0 THEN <<>> ELSE SubSeq(body, dot + 1, Len(body))
      Digits(x) == \A i \in 1..Len(x) : DigitVal(x[i]) >= 0
  IN  IF Lower(body) = <<"n", "a", "n">> THEN [ok |-> TRUE, nan |-> TRUE, v |-> 0]
      ELSE IF Digits(whole) /\ Digits(frac) /\ Len(whole) + Len(frac) > 0
      THEN [ok |-> TRUE, nan |-> FALSE,
            v |-> Signed(text, 100 * DigitsValue(whole) + Hundredths(frac))]
      ELSE [ok |-> FALSE, nan |-> FALSE, v |-> 0]

NoPrice == [some |-> FALSE, part_number |-> 0, price |-> [nan |-> FALSE, v |-> 0], date |-> 0]

is_more_recent_or_same(date_val, latest) == ~latest.some \/ date_val >= latest.date

\* (latest_date is None) or (date_val > latest_date)
is_more_recent(date_val, latest) == ~latest.some \/ date_val > latest.date

\* the body of  for block in price_blocks  on the latest_* variables
most_recent_step(latest, block, row, row_idx, today, customer_name) ==
  LET price_col == select_price_column(block.header_values, block.part_col, customer_name)
      part_number_int == parse_int(row[block.part_col])
      price_val == parse_price(row[price_col])
  IN  IF ~block.date.some \/ block.date.d > today THEN latest
      ELSE IF row_idx <= block.header_row THEN latest
      ELSE IF price_col = 0 THEN latest
      ELSE IF ~part_number_int.ok \/ ~price_val.ok THEN latest
      ELSE IF is_more_recent(block.date.d, latest)
      THEN [some |-> TRUE, part_number |-> part_number_int.v,
            price |-> [nan |-> price_val.nan, v |-> price_val.v], date |-> block.date.d]
      ELSE latest

RECURSIVE most_recent_loop(_, _, _, _, _, _)
most_recent_loop(latest, price_blocks, row, row_idx, today, customer_name) ==
  IF price_blocks = <<>> THEN latest
  ELSE most_recent_loop(
         most_recent_step(latest, Head(price_blocks), row, row_idx, today, customer_name),
         Tail(price_blocks), row, row_idx, today, customer_name)

find_most_recent_price(row, row_idx, price_blocks, today, customer_name) ==
  most_recent_loop(NoPrice, price_blocks, row, row_idx, today, customer_name)

\* col_indices.get(name): the dict keeps the last column of a repeated header
col_index(header, name) ==
  IF \E j \in 1..Len(header) : Lower(header[j]) = name
  THEN CHOOSE j \in 1..Len(header) :
         Lower(header[j]) = name /\ \A i \in (j + 1)..Len(header) : Lower(header[i]) # name
  ELSE 0

\* text.split(",")
RECURSIVE Split(_)
Split(text) ==
  IF Index(text, ",") = 0 THEN <<text>>
  ELSE <<SubSeq(text, 1, Index(text, ",") - 1)>>
         \o Split(SubSeq(text, Index(text, ",") + 1, Len(text)))

customer_names_unfiltered(customer_text) ==
  LET tokens == Split(customer_text)
  IN  [i \in 1..Len(tokens) |-> Strip(tokens[i])]

\* customer_names of a data row
customer_names_of(customer_text) ==
  LET tokens == Split(customer_text)
  IN  IF Index(customer_text, ",") # 0
      THEN SelectSeq([i \in 1..Len(tokens) |-> Strip(tokens[i])], LAMBDA c : c # <<>>)
      ELSE <<customer_text>>

\* the customer_name argument passed to _find_most_recent_price
customer_arg(customer_text, customer_name) ==
  IF Index(customer_text, ",") # 0 THEN [some |-> TRUE, s |-> customer_name]
  ELSE [some |-> FALSE, s |-> <<>>]

\* for customer_name in customer_names: the result of _find_most_recent_price
RECURSIVE most_recent_prices(_, _, _, _, _, _)
most_recent_prices(customer_names, customer_text, row, row_idx, price_blocks, today) ==
  IF customer_names = <<>> THEN <<>>
  ELSE <<find_most_recent_price(row, row_idx, price_blocks, today,
                                customer_arg(customer_text, Head(customer_names)))>>
         \o most_recent_prices(Tail(customer_names), customer_text, row, row_idx,
                               price_blocks, today)

\* the parts appended for data row k
parts_of_row(df, k, header, price_blocks, today) ==
  LET row == df[k]
      Meta(name) == IF col_index(header, name) # 0
                    THEN Strip(PyStr(row[col_index(header, name)])) ELSE <<>>
      pcn_idx == col_index(header, <<"f", "i", "s", "h", "e", "r", " ", "p", "c", "n">>)
      pcn == IF pcn_idx # 0 /\ Strip(PyStr(row[pcn_idx])) # <<>>
             THEN Strip(PyStr(row[pcn_idx])) ELSE DEFAULT_PCN_TEXT
      customer_text == Meta(TxtPlexCustomerCode)
      customer_names == customer_names_of(customer_text)
      result == most_recent_prices(customer_names, customer_text, row, k,
                                   price_blocks, today)
      kept == SelectSeq([n \in 1..Len(customer_names) |-> n], LAMBDA n : result[n].some)
  IN  [i \in 1..Len(kept) |->
         [part_number |-> result[kept[i]].part_number,
          price |-> result[kept[i]].price,
          program |-> Meta(<<"p", "r", "o", "g", "r", "a", "m">>),
          pcn |-> pcn,
          customer |-> Strip(customer_names[kept[i]]),
          oem_plant |-> Meta(<<"o", "e", "m", " ", "p", "l", "a", "n", "t">>),
          description |-> Meta(TxtPartDescription),
          date |-> result[kept[i]].date,
          row |-> k, token |-> kept[i]]]

\* for k in range(start_table_row + 1, len(df))
RECURSIVE parts_upto(_, _, _, _, _)
parts_upto(df, k, start_table_row, price_blocks, today) ==
  IF k <= start_table_row THEN <<>>
  ELSE parts_upto(df, k - 1, start_table_row, price_blocks, today)
         \o parts_of_row(df, k, header_values_of(df[start_table_row]), price_blocks, today)

extract_parts_from_rows(df, start_table_row, price_blocks, today) ==
  parts_upto(df, Len(df), start_table_row, price_blocks, today)

\* sheets: optional blank rows, a row of block dates, the header row with two
\* price blocks side by side, a data row, and optionally a second table below
\* ("stacked"), a dated price block above the table ("above") or a header
\* row without a part description cell ("headless")
MaxLeadRows == 1

BlankRow == <<NaN, NaN, NaN, NaN, NaN, NaN>>

XlDates == {NaN, Date(5), Date(9), Date(25)}

XlTodays == {20}

XlHeadersA == {Str(<<"D", "D", "P", " ", "P", "r", "i", "c", "e">>), Str(<<"N", "o", "t", "e", "s">>)}

XlHeadersB ==
  { Str(<<"D", "D", "P", " ", "P", "r", "i", "c", "e">>),
    Str(<<"F", "C", "A", " ", "p", "r", "i", "c", "e", " ", "(", "u", "s", "d", ")">>),
    Str(<<"F", "a", "c", "t", "o", "r", "y", " ", "Z", "e", "r", "o", " ", "D", "D", "P", " ", "P", "r", "i", "c", "e">>) }

XlCustomers ==
  {Str(<<"L", "e", "a", "r">>), Str(<<"L", "e", "a", "r", ",", " ", ",", "G", "M">>), NaN}

XlPartsA == {Num(101)}

XlPricesA == {Num(10), Str(<<"$", "1", ",", "0", "5", "0", ".", "5">>), Str(<<"t", "b", "d">>)}

XlPartsB == {Str(<<" ", "7", "7", " ">>), NaN}

XlPricesB == {Num(11), NaN, Str(<<"n", "/", "a">>)}

XlShapes == {"plain", "stacked", "above", "headless"}

XlDescriptionHeader(shape) ==
  IF shape = "headless"
  THEN Str(<<"D", "e", "s", "c", "r", "i", "p", "t", "i", "o", "n">>)
  ELSE Str(<<"P", "a", "r", "t", " ", "D", "e", "s", "c", "r", "i", "p", "t", "i", "o", "n">>)

XlSheet(lead, dateA, dateB, hdrA, hdrB, customer, partA, priceA, partB, priceB, shape) ==
  [i \in 1..lead |-> BlankRow]
  \o (IF shape = "above"
      THEN << <<NaN, NaN, NaN, NaN, Date(15), NaN>>,
              <<NaN, NaN, NaN, NaN, Str(<<"P", "a", "r", "t", " ", "N", "u", "m", "b", "e", "r">>), Str(<<"D", "D", "P", " ", "P", "r", "i", "c", "e">>)>> >>
      ELSE <<>>)
  \o << <<NaN, NaN, dateA, NaN, dateB, NaN>>,
        <<XlDescriptionHeader(shape), Str(<<"P", "l", "e", "x", " ", "C", "u", "s", "t", "o", "m", "e", "r", " ", "C", "o", "d", "e">>),
          Str(<<"P", "a", "r", "t", " ", "N", "u", "m", "b", "e", "r">>), hdrA, Str(<<" ", "P", "A", "R", "T", " ", "N", "U", "M", "B", "E", "R">>), hdrB>>,
        <<Str(<<"S", "e", "a", "t">>), customer, partA, priceA, partB, priceB>> >>
  \o (IF shape = "stacked"
      THEN << <<NaN, NaN, Str(<<"P", "a", "r", "t", " ", "N", "u", "m", "b", "e", "r">>), Str(<<"D", "D", "P", " ", "P", "r", "i", "c", "e">>), NaN, NaN>>,
              <<Str(<<"T", "r", "a", "c", "k">>), customer, Num(103), Num(12), NaN, NaN>> >>
      ELSE <<>>)

\* the sheet that follows in the workbook
XlNextSheet ==
  << <<NaN, Date(3), NaN>>,
     <<Str(<<"P", "a", "r", "t", " ", "D", "e", "s", "c", "r", "i", "p", "t", "i", "o", "n">>), Str(<<"P", "a", "r", "t", " ", "N", "u", "m", "b", "e", "r">>), Str(<<"F", "C", "A", " ", "P", "r", "i", "c", "e">>)>>,
     <<Str(<<"R", "a", "i", "l">>), Num(205), Num(7)>> >>

\* xls.sheet_names: df, then the sheets of rest; start_table_row, price_blocks
\* and parts are those of df, all_parts is the list returned
XlCall(df, today) ==
  [pc |-> "call", df |-> df, rest |-> <<XlNextSheet>>, today |-> today,
   start_table_row |-> 0, price_blocks |-> <<>>, parts |-> <<>>, all_parts |-> <<>>]

XlIdle == [XlCall(<<>>, 0) EXCEPT !.pc = "idle"]

\* the body of  for sheet_name in xls.sheet_names  below the header search
blocks_under(df, start_table_row) ==
  IF start_table_row = 0 THEN <<>> ELSE find_price_blocks(df, start_table_row)

parts_among(df, today, start_table_row, price_blocks) ==
  IF start_table_row = 0 THEN <<>>
  ELSE extract_parts_from_rows(df, start_table_row, price_blocks, today)

parts_under(df, today, start_table_row) ==
  parts_among(df, today, start_table_row, blocks_under(df, start_table_row))

parts_in_sheet(df, today) == parts_under(df, today, find_main_table_header(df))

RECURSIVE parts_of_sheets(_, _)
parts_of_sheets(sheets, today) ==
  IF sheets = <<>> THEN <<>>
  ELSE parts_in_sheet(Head(sheets), today) \o parts_of_sheets(Tail(sheets), today)

\* the workbook read: the locals of the first sheet and the list returned
sheets_read(x, start_table_row, price_blocks, parts) ==
  [x EXCEPT !.pc = "done", !.start_table_row = start_table_row,
            !.price_blocks = price_blocks, !.parts = parts,
            !.all_parts = parts \o parts_of_sheets(x.rest, x.today)]

first_sheet_blocks(x, start_table_row, price_blocks) ==
  sheets_read(x, start_table_row, price_blocks,
              parts_among(x.df, x.today, start_table_row, price_blocks))

first_sheet_read(x, start_table_row) ==
  first_sheet_blocks(x, start_table_row, blocks_under(x.df, start_table_row))

\* get_excel_part_info on a workbook
GetExcelPartInfo ==
  /\ xl.pc = "call"
  /\ xl' = first_sheet_read(xl, find_main_table_header(xl.df))
  /\ UNCHANGED <<pk, pr, run>>

(***************************************************************************)
(* A run: compare_prices.main and _process_part, plex_api.retrieve_part_key*)
(* with the part key cache and its file, the per-file price cache.         *)
(* A dict is a function on its keys.                                       *)
(***************************************************************************)
MaxParts == 2

EmptyDict == [k \in {} |-> None]

\* d.get(key)
dict_get(d, key) == IF key \in DOMAIN d THEN d[key] ELSE None

\* d[key] = v
dict_set(d, key, v) == [k \in DOMAIN d \cup {key} |-> IF k = key THEN v ELSE d[k]]

\* bool(v) of a JSON value
Truthy(v) ==
  CASE v.t = "none" -> FALSE
    [] v.t = "str" -> v.s # <<>>
    [] v.t = "num" -> v.n # 0
    [] OTHER -> TRUE

\* f"{part_no}::{customer_code}", "none" standing for an empty code
build_cache_key(part_no, customer_code) ==
  part_no \o <<":", ":">> \o (IF customer_code = <<>> THEN <<"n", "o", "n", "e">> ELSE customer_code)

\* the file of the part key cache: ok is FALSE when json.load fails on it
DiskOf(cache) == [ok |-> TRUE, cache |-> cache]

DiskBroken == [ok |-> FALSE, cache |-> EmptyDict]

load_part_key_cache(disk) == IF disk.ok THEN disk.cache ELSE EmptyDict

\* open(PART_KEY_CACHE_PATH, "w"); json.dump(cache, f)  run to the end
save_part_key_cache(cache) == DiskOf(cache)

\* what a process killed inside save_part_key_cache leaves in the file: the
\* old content (killed before open), an empty or partly written file (killed
\* after open truncated it), the new content (killed after the last write)
interrupted_save(disk, cache) == {disk, DiskBroken, DiskOf(cache)}

\* an answer of the identity source to one query
IdAnswer(kind, cands, headers) == [kind |-> kind, cands |-> cands, headers |-> headers]

\* _query_part_key_api: rows and headers, ([], []) on a non-200 response;
\* raised names the exception of requests.post
query_part_key_api(answer) ==
  CASE answer.kind = "200" ->
         [raised |-> "", rows |-> RowsOf(answer.cands, answer.headers), headers |-> answer.headers]
    [] answer.kind = "500" -> [raised |-> "", rows |-> <<>>, headers |-> <<>>]
    [] OTHER -> [raised |-> answer.kind, rows |-> <<>>, headers |-> <<>>]

PartKeyLookup(part_key, status, cache, saved, queries) ==
  [part_key |-> part_key, status |-> status, cache |-> cache, saved |-> saved,
   queries |-> queries]

\* except requests.Timeout / except Exception
lookup_raised(raised, cache, queries) ==
  PartKeyLookup(None, IF raised = "timeout" THEN St("Timed Out") ELSE St(""),
                cache, FALSE, queries)

retry_only_without_rows(first, part_key) == first.rows = <<>>

\* if not part_key: retry with Customer_Part_No
retry_needed(first, part_key) == ~Truthy(part_key)

cache_with_bare(cache, part_no, normalized, part_key) ==
  dict_set(dict_set(cache, build_cache_key(part_no, normalized), part_key),
           part_no, part_key)

\* cache[cache_key] = part_key; cache[part_no] = part_key without a customer
cache_with(cache, part_no, normalized, part_key) ==
  LET keyed == dict_set(cache, build_cache_key(part_no, normalized), part_key)
  IN  IF normalized = <<>> THEN dict_set(keyed, part_no, part_key) ELSE keyed

\* if part_key: the cache is extended and saved
lookup_result(part_no, normalized, cache, part_key, status, queries) ==
  IF Truthy(part_key)
  THEN PartKeyLookup(part_key, St(""), cache_with(cache, part_no, normalized, part_key),
                     TRUE, queries)
  ELSE PartKeyLookup(None, St(status), cache, FALSE, queries)

\* the query by Customer_Part_No and the selection among its rows
lookup_second(part_no, normalized, cache, second) ==
  IF second.raised # ""
  THEN lookup_raised(second.raised, cache, <<"Part_No", "Customer_Part_No">>)
  ELSE lookup_result(part_no, normalized, cache,
                     select_part_key_from_rows(second.rows, second.headers,
                                               normalized, TRUE).part_key,
                     "", <<"Part_No", "Customer_Part_No">>)

\* after the selection among the rows of the query by Part_No
lookup_retry(part_no, normalized, cache, idsrc, first, part_key) ==
  IF retry_needed(first, part_key)
  THEN lookup_second(part_no, normalized, cache,
                     query_part_key_api(idsrc.by_customer_part_no))
  ELSE lookup_result(part_no, normalized, cache, part_key, "", <<"Part_No">>)

\* the query by Part_No and the selection among its rows
lookup_first(part_no, normalized, cache, idsrc, first) ==
  IF first.raised # "" THEN lookup_raised(first.raised, cache, <<"Part_No">>)
  ELSE lookup_retry(part_no, normalized, cache, idsrc, first,
                    select_part_key_from_rows(first.rows, first.headers,
                                              normalized, TRUE).part_key)

\* part_key = cache.get(cache_key), cache.get(part_no) without a customer
cached_part_key(part_no, normalized, cache, keyed) ==
  IF ~Truthy(keyed) /\ normalized = <<>> THEN dict_get(cache, part_no) ELSE keyed

lookup_uncached(part_no, normalized, cache, idsrc, cached) ==
  IF Truthy(cached) THEN PartKeyLookup(cached, St(""), cache, FALSE, <<>>)
  ELSE lookup_first(part_no, normalized, cache, idsrc,
                    query_part_key_api(idsrc.by_part_no))

lookup_normalized(part_no, normalized, cache, idsrc) ==
  lookup_uncached(part_no, normalized, cache, idsrc,
                  cached_part_key(part_no, normalized, cache,
                                  dict_get(cache, build_cache_key(part_no, normalized))))

retrieve_part_key(part_no, customer_code_raw, cache, idsrc) ==
  lookup_normalized(part_no, normalized_customer(customer_code_raw), cache, idsrc)

\* the keys of PCN_AUTH_MAP and the key used for any other PCN
PCN_AUTH_KEYS == {"BRO", "EVV", "TROY", "SCS", "MX"}

DEFAULT_PCN == "SCS"

\* get_auth_for_pcn returns: the PCN's entry, else the default one, decodes
get_auth_for_pcn(pcn, credentials) ==
  IF pcn \in PCN_AUTH_KEYS THEN pcn \in credentials ELSE DEFAULT_PCN \in credentials

\* month_start of the part's date: the months are the 60-tick periods that
\* begin at tick 10
compute_effective_month_start(part_date) ==
  [t |-> "iso", d |-> part_date - ((part_date - 10) % 60)]

\* customer_code_to_name.get(customer_code_raw, "")
customer_name_of(code_to_name, customer_code_raw) ==
  IF customer_code_raw \in DOMAIN code_to_name THEN code_to_name[customer_code_raw] ELSE <<>>

PriceKey(part_key, customer_code_raw, pcn, shipper_begin_str) ==
  [part_key |-> part_key, customer_code_raw |-> customer_code_raw, pcn |-> pcn,
   shipper_begin_str |-> shipper_begin_str]

Triple(api_price, status, po_no) == [api_price |-> api_price, status |-> status, po_no |-> po_no]

\* float(api_price) - float(excel_price), 0.0 when a float() fails
delta_of(api_price, excel_price) ==
  IF ToFloat(api_price).ok THEN ToFloat(api_price).v - excel_price ELSE 0

\* the customer list: code -> name, and the lower-cased names in the order
\* the set gives them
CustomerCodeToName == [c \in {<<"l">>} |-> <<"A", "b", "c">>]

CustomerNames == <<NameAbc>>

RunToday == 17

NoPartFound == St("No part found (no Part_Key)")

PartOutcome(returned, result, part_key_cache, price_lookup_cache, saved, id_queries, price_queries) ==
  [returned |-> returned, result |-> result, part_key_cache |-> part_key_cache,
   price_lookup_cache |-> price_lookup_cache, saved |-> saved,
   id_queries |-> id_queries, price_queries |-> price_queries]

\* the PriceResult returned and the caches and queries of the call
part_done(part, part_no, customer_name, lookup, triple, price_lookup_cache, price_queries) ==
  PartOutcome(TRUE,
              [part_number |-> part_no, chart_price |-> part.price,
               plex_price |-> triple.api_price,
               delta |-> delta_of(triple.api_price, part.price),
               customer |-> customer_name, po_no |-> triple.po_no,
               status |-> triple.status, part_key |-> lookup.part_key],
              lookup.cache, price_lookup_cache, lookup.saved,
              [i \in 1..Len(lookup.queries) |->
                 [part_no |-> part_no, lookup_field |-> lookup.queries[i]]],
              price_queries)

\* api_price, status, po_no = query_price_api(...); the triple is stored
part_queried(part, part_no, customer_name, lookup, price_lookup_cache, cache_key, answer) ==
  part_done(part, part_no, customer_name, lookup,
            Triple(answer.api_price, answer.status, answer.po_no),
            dict_set(price_lookup_cache, cache_key,
                     Triple(answer.api_price, answer.status, answer.po_no)),
            <<cache_key>>)

\* if cache_key in price_lookup_cache ... else ...
part_priced(part, part_no, customer_name, lookup, price_lookup_cache, pricesrc, cache_key) ==
  IF cache_key \in DOMAIN price_lookup_cache
  THEN part_done(part, part_no, customer_name, lookup, price_lookup_cache[cache_key],
                 price_lookup_cache, <<>>)
  ELSE part_queried(part, part_no, customer_name, lookup, price_lookup_cache, cache_key,
                    query_price_api(pricesrc.kind,
                                    RowsOf(pricesrc.cands, pricesrc.headers),
                                    pricesrc.headers, customer_name, CustomerNames,
                                    part.price, cache_key.shipper_begin_str, RunToday))

\* if not part_key ... else ...
part_looked_up(part, part_no, customer_code_raw, customer_name, lookup, price_lookup_cache, pricesrc) ==
  IF ~Truthy(lookup.part_key)
  THEN part_done(part, part_no, customer_name, lookup,
                 Triple(Num(part.price),
                        IF lookup.status.msg # "" THEN lookup.status ELSE NoPartFound,
                        Str(<<>>)),
                 price_lookup_cache, <<>>)
  ELSE part_priced(part, part_no, customer_name, lookup, price_lookup_cache, pricesrc,
                   PriceKey(lookup.part_key, customer_code_raw, part.pcn,
                            compute_effective_month_start(part.date)))

part_of_customer(part, part_no, customer_code_raw, part_key_cache, price_lookup_cache, idsrc, pricesrc) ==
  part_looked_up(part, part_no, customer_code_raw,
                 customer_name_of(CustomerCodeToName, customer_code_raw),
                 retrieve_part_key(part_no, customer_code_raw, part_key_cache, idsrc),
                 price_lookup_cache, pricesrc)

\* _process_part: returned is FALSE for  return None
process_part(part, part_key_cache, price_lookup_cache, idsrc, pricesrc, credentials) ==
  IF ~get_auth_for_pcn(part.pcn, credentials)
  THEN PartOutcome(FALSE, None, part_key_cache, price_lookup_cache, FALSE, <<>>, <<>>)
  ELSE part_of_customer(part, PyStr(Num(part.part_number)), Lower(Strip(part.customer)),
                        part_key_cache, price_lookup_cache, idsrc, pricesrc)

report_all(result) == TRUE

\* main: a result with this status is logged only, not reported
reported(result) == result.status # NoPartFound

\* the state of a run about to start: the input files, the sources' answers,
\* the credentials of the environment and the part key cache file
RunStart(files, idsrc, pricesrc, credentials, disk) ==
  [pc |-> "files", files |-> files, f |-> 1, parts |-> <<>>, p |-> 1,
   idsrc |-> idsrc, pricesrc |-> pricesrc, credentials |-> credentials,
   disk |-> disk, disk_before |-> disk,
   part_key_cache |-> load_part_key_cache(disk), price_lookup_cache |-> EmptyDict,
   results |-> <<>>, processed |-> <<>>, reports |-> <<>>,
   id_queries |-> <<>>, price_queries |-> <<>>]

RunIdle ==
  [RunStart(<<>>, [by_part_no |-> IdAnswer("500", <<>>, <<>>),
                   by_customer_part_no |-> IdAnswer("500", <<>>, <<>>)],
            IdAnswer("500", <<>>, <<>>), {}, DiskOf(EmptyDict))
     EXCEPT !.pc = "idle"]

\* for filename in INPUT_FILES: get_excel_part_info raises on a file that
\* cannot be read and nothing in main catches it
ReadFile ==
  /\ run.pc = "files"
  /\ run.f <= Len(run.files)
  /\ IF run.files[run.f].readable
     THEN run' = [run EXCEPT !.pc = "parts", !.parts = run.files[run.f].parts, !.p = 1,
                             !.price_lookup_cache = EmptyDict, !.results = <<>>,
                             !.processed = <<>>]
     ELSE run' = [run EXCEPT !.pc = "aborted"]
  /\ UNCHANGED <<pk, pr, xl>>

\* _process_part on the next part of the file
NextPart ==
  process_part(run.parts[run.p], run.part_key_cache, run.price_lookup_cache,
               run.idsrc, run.pricesrc, run.credentials)

\* the run after _process_part returned out for the part at r.p
after_part(r, out) ==
  [r EXCEPT
     !.p = r.p + 1,
     !.part_key_cache = out.part_key_cache,
     !.price_lookup_cache = out.price_lookup_cache,
     !.disk = IF out.saved THEN save_part_key_cache(out.part_key_cache) ELSE r.disk,
     !.results = IF out.returned /\ reported(out.result)
                 THEN Append(r.results, out.result) ELSE r.results,
     !.processed = Append(r.processed,
                          [idx |-> r.p, returned |-> out.returned, result |-> out.result,
                           id_queries |-> out.id_queries,
                           price_queries |-> out.price_queries,
                           cache_before |-> r.part_key_cache, disk_before |-> r.disk]),
     !.id_queries = r.id_queries \o out.id_queries,
     !.price_queries = r.price_queries \o out.price_queries]

\* one turn of  for part in excel_parts
ProcessPart ==
  /\ run.pc = "parts"
  /\ run.p <= Len(run.parts)
  /\ run' = after_part(run, NextPart)
  /\ UNCHANGED <<pk, pr, xl>>

\* the runs cut short inside the save_part_key_cache of the part at r.p
crashed_in_save(r, out) ==
  IF out.saved
  THEN {[r EXCEPT !.pc = "crashed", !.disk = left, !.disk_before = r.disk,
                  !.id_queries = r.id_queries \o out.id_queries] :
          left \in interrupted_save(r.disk, out.part_key_cache)}
  ELSE {}

\* the process is killed while retrieve_part_key saves the cache
CrashInSave ==
  /\ run.pc = "parts"
  /\ run.p <= Len(run.parts)
  /\ run' \in crashed_in_save(run, NextPart)
  /\ UNCHANGED <<pk, pr, xl>>

\* write_results(results, output_filepath) at the end of a file
WriteResults ==
  /\ run.pc = "parts"
  /\ run.p > Len(run.parts)
  /\ run' = [run EXCEPT !.pc = "files", !.f = run.f + 1,
                        !.reports = Append(run.reports,
                                           [file |-> run.f, results |-> run.results,
                                            parts |-> run.parts,
                                            processed |-> run.processed])]
  /\ UNCHANGED <<pk, pr, xl>>

\* the loop over INPUT_FILES is over: one email, main returns
SendEmail ==
  /\ run.pc = "files"
  /\ run.f > Len(run.files)
  /\ run' = [run EXCEPT !.pc = "done"]
  /\ UNCHANGED <<pk, pr, xl>>

\* load_part_key_cache at the start of the next run
LoadPartKeyCache ==
  /\ run.pc \in {"done", "crashed"}
  /\ run' = [run EXCEPT !.pc = IF run.pc = "crashed" THEN "restarted" ELSE "rerun",
                        !.part_key_cache = load_part_key_cache(run.disk)]
  /\ UNCHANGED <<pk, pr, xl>>

\* the parts a file can hold, the answers of the sources
RunPart(part_number, customer, pcn, price, date) ==
  [part_number |-> part_number, customer |-> customer, pcn |-> pcn, price |-> price,
   date |-> date]

RunPartPool ==
  { RunPart(7, <<"L">>, "95506", 10, 12),
    RunPart(7, <<"l">>, "95506", 11, 14),
    RunPart(8, <<>>, "95506", 10, 12),
    RunPart(7, <<"l">>, "BRO", 10, 12),
    RunPart(9, <<"l">>, "95506", 10, 12) }

RunLaterPartPool == {p \in RunPartPool : p.part_number = 7 /\ p.pcn # "BRO"}

RunFile(readable, parts) == [readable |-> readable, parts |-> parts]

RunIdHeaders == <<"Part_Key", "Part_Status", "Revision", "Customer_Code">>

RunIdMatching ==
  <<IdCand(<<"K", "3">>, Sym("Obsolete"), Num(1), Str(<<"l">>)),
    IdCand(<<"K", "1">>, Sym("Service"), Num(2), Str(<<"l">>))>>

RunIdOthers == <<IdCand(<<"K", "6">>, Sym("Scrapped"), None, Str(<<"a">>))>>

RunIdLoose == <<IdCand(<<"K", "2">>, Sym("Production"), Num(5), Str(<<"L", " ">>))>>

RunIdSources ==
  LET Src(a, b) == [by_part_no |-> a, by_customer_part_no |-> b]
      Found2 == IdAnswer("200", RunIdLoose, RunIdHeaders)
  IN  { Src(IdAnswer("200", RunIdMatching, RunIdHeaders), Found2),
        Src(IdAnswer("200", RunIdOthers, RunIdHeaders), Found2),
        Src(IdAnswer("200", RunIdOthers, RunIdHeaders), IdAnswer("200", RunIdOthers, RunIdHeaders)),
        Src(IdAnswer("200", RunIdOthers, RunIdHeaders), IdAnswer("timeout", <<>>, <<>>)),
        Src(IdAnswer("200", RunIdMatching, <<"Part_Key", "Part_Status", "Customer_Code">>), Found2),
        Src(IdAnswer("200", <<>>, <<>>), Found2),
        Src(IdAnswer("200", <<>>, <<>>), IdAnswer("200", <<>>, <<>>)),
        Src(IdAnswer("500", <<>>, <<>>), Found2),
        Src(IdAnswer("timeout", <<>>, <<>>), Found2),
        Src(IdAnswer("exception", <<>>, <<>>), Found2) }

RunPriceSources ==
  { IdAnswer("200", <<PriceCand(Str(NameAbc), Num(12), Date(12), <<"P", "2">>)>>, PriceHeadersStd),
    IdAnswer("200", <<>>, <<>>),
    IdAnswer("timeout", <<>>, <<>>) }

\* the cache file left by earlier runs
RunDisk == DiskOf([k \in {build_cache_key(<<"9">>, <<"l">>)} |-> Str(<<"K", "0">>)])

(***************************************************************************)
(* Specifications: the inputs of a call are drawn by the initial predicate *)
(***************************************************************************)
InitIdentity ==
  /\ \E cands \in InjectiveSeqs(IdPool, MaxIdRows), headers \in IdHeaders,
        customer_code_raw \in IdCustomerCodes :
       pk = PkCall(cands, headers, customer_code_raw)
  /\ pr = PrIdle
  /\ xl = XlIdle
  /\ run = RunIdle

NextIdentity == SelectPartKey

SpecIdentity == InitIdentity /\ [][NextIdentity]_vars

InitPrice == pk = PkIdle /\ PrCalls /\ xl = XlIdle /\ run = RunIdle

NextPrice == QueryPriceApi \/ QueryPriceApiAgain

SpecPrice == InitPrice /\ [][NextPrice]_vars

InitReader ==
  /\ pk = PkIdle
  /\ pr = PrIdle
  /\ run = RunIdle
  /\ \E lead \in 0..MaxLeadRows, dateA \in XlDates, dateB \in XlDates,
        hdrA \in XlHeadersA, hdrB \in XlHeadersB, customer \in XlCustomers,
        partA \in XlPartsA, priceA \in XlPricesA, partB \in XlPartsB,
        priceB \in XlPricesB, shape \in XlShapes, today \in XlTodays :
       /\ shape # "plain" => lead = 0
       /\ xl = XlCall(XlSheet(lead, dateA, dateB, hdrA, hdrB, customer,
                              partA, priceA, partB, priceB, shape), today)

NextReader == GetExcelPartInfo

SpecReader == InitReader /\ [][NextReader]_vars

\* a run over two input files; the first may be unreadable, the second holds
\* parts the first may have priced already
InitRun ==
  /\ pk = PkIdle
  /\ pr = PrIdle
  /\ xl = XlIdle
  /\ \E first \in {RunFile(FALSE, <<>>)}
                   \cup {RunFile(TRUE, parts) : parts \in InjectiveSeqs(RunPartPool, MaxParts)},
        second \in {RunFile(TRUE, parts) : parts \in InjectiveSeqs(RunLaterPartPool, MaxParts)},
        idsrc \in RunIdSources, pricesrc \in RunPriceSources :
       run = RunStart(<<first, second>>, idsrc, pricesrc, {DEFAULT_PCN}, RunDisk)

NextRun ==
  \/ ReadFile
  \/ ProcessPart
  \/ CrashInSave
  \/ WriteResults
  \/ SendEmail
  \/ LoadPartKeyCache

SpecRun == InitRun /\ [][NextRun]_vars

(***************************************************************************)
(* Identity resolution: properties                                         *)
(***************************************************************************)
IdRequired == {"Part_Key", "Part_Status", "Revision", "Customer_Code"}

IdHasColumns == IdRequired \subseteq Range(pk.headers)

IdCode == Lower(Strip(pk.customer_code_raw))

\* positions of the candidates whose customer code equals the requested one
IdMatching ==
  {i \in 1..Len(pk.cands) : Lower(Strip(PyStr(pk.cands[i]["Customer_Code"]))) = IdCode}

IdAll == 1..Len(pk.cands)

IdStatusRank(c) ==
  LET st == c["Part_Status"]
  IN  CASE st = Sym("Service") -> 0
        [] st = Sym("Production") -> 1
        [] st = Sym("Prototype") -> 2
        [] st = Sym("Development") -> 3
        [] st = Sym("Obsolete") -> 4
        [] OTHER -> 5

IdHasRevision(c) == ToFloat(c["Revision"]).ok

IdRevision(c) == ToFloat(c["Revision"]).v

\* a ranks strictly before b
IdBetter(a, b) ==
  \/ IdStatusRank(a) < IdStatusRank(b)
  \/ /\ IdStatusRank(a) = IdStatusRank(b)
     /\ \/ IdHasRevision(a) /\ ~IdHasRevision(b)
        \/ IdHasRevision(a) /\ IdHasRevision(b) /\ IdRevision(a) > IdRevision(b)

\* i is the top-ranked position of S: nothing in S ranks before it, nothing
\* earlier in the list ranks equal to it
IdIsTop(i, S) ==
  /\ i \in S
  /\ \A j \in S : ~IdBetter(pk.cands[j], pk.cands[i])
  /\ \A j \in S : j < i => IdBetter(pk.cands[i], pk.cands[j])

IdSelected(i) == pk.part_key = pk.cands[i]["Part_Key"]

\* C1: with an empty customer code and a non-empty candidate list that has the
\* four required columns, the resolver returns the identifier of the top-ranked
\* candidate of the whole list.
C1_EmptyCodeUsesAll ==
  (pk.pc = "done" /\ IdCode = <<>> /\ pk.cands # <<>> /\ IdHasColumns)
    => \E i \in IdAll : IdIsTop(i, IdAll) /\ IdSelected(i)

\* C2: with a non-empty customer code, no identifier is returned when no
\* candidate carries that code, and a returned identifier is that of a
\* candidate carrying it.
C2_StrictFilter ==
  (pk.pc = "done" /\ IdCode # <<>>)
    => /\ IdMatching = {} => pk.part_key = None
       /\ pk.part_key # None => \E i \in IdMatching : IdSelected(i)

C2_Witness ==
  /\ pk.pc = "done" /\ IdCode # <<>> /\ IdHasColumns
  /\ Len(pk.cands) >= 2 /\ IdMatching = {} /\ pk.part_key = None

IdExample == {c \in IdPool : c["Part_Key"] \in {Str(<<"K", "1">>), Str(<<"K", "2">>), Str(<<"K", "3">>)}}

\* C3: the selected candidate is the top-ranked one (status rank, then highest
\* numeric revision, then input order) of the candidates passing the customer
\* filter; Obsolete/1, Production/5, Service/2 yields the Service candidate in
\* every input order.
C3_Ranking ==
  pk.pc = "done"
    => /\ pk.part_key # None =>
            \E i \in (IF IdCode = <<>> THEN IdAll ELSE IdMatching) :
               IdIsTop(i, IF IdCode = <<>> THEN IdAll ELSE IdMatching) /\ IdSelected(i)
       /\ (IdCode # <<>> /\ IdHasColumns /\ IdMatching # {}) => pk.part_key # None
       /\ (IdCode = <<"l">> /\ IdHasColumns /\ Range(pk.cands) = IdExample)
            => pk.part_key = Str(<<"K", "1">>)

C3_Witness ==
  /\ pk.pc = "done" /\ IdCode = <<"l">> /\ IdHasColumns
  /\ Len(pk.cands) = 3 /\ Range(pk.cands) = IdExample
  /\ pk.cands[3]["Part_Key"] = Str(<<"K", "1">>)
  /\ pk.part_key = Str(<<"K", "1">>)

(***************************************************************************)
(* Price resolution: properties                                            *)
(***************************************************************************)
PrReturned == pr.pc # "call"

PrAnswered == PrReturned /\ pr.resp = "200" /\ pr.cands # <<>>

PrHasColumns == {"Customer_Name", "Unit_Price", "Require_Ship_Date"} \subseteq Range(pr.headers)

\* one text is a case-insensitive substring of the other, lengths differ by <= 2
FuzzyEq(a, b) ==
  LET x == Lower(Strip(a))
      y == Lower(Strip(b))
  IN  (IsSubstr(x, y) \/ IsSubstr(y, x)) /\ Abs(Len(x) - Len(y)) <= 2

PrKnownMatches == {k \in pr.names : FuzzyEq(pr.customer_name, k)}

PrRowOf(i) == RowOf(pr.cands[i], pr.headers)

PrSelected(i) == pr.res.selected_row # NoRow /\ pr.res.selected_row = PrRowOf(i)

\* positions of the candidates that pass the customer filter of the call
PrPassing ==
  IF pr.res.matched_customer.some
  THEN {i \in 1..Len(pr.cands) :
          FuzzyEq(PyStr(pr.cands[i]["Customer_Name"]), pr.res.matched_customer.s)}
  ELSE 1..Len(pr.cands)

PrHasDate(i) == pr.cands[i]["Require_Ship_Date"].t = "date"

PrDate(i) == pr.cands[i]["Require_Ship_Date"].d

PrFuture(i) == PrHasDate(i) /\ PrDate(i) > pr.today

PrNonFuture == {i \in PrPassing : ~PrFuture(i)}

PrHasTarget == pr.date_begin_str.t = "iso"

PrStale(i) == PrHasTarget /\ PrHasDate(i) /\ PrDate(i) < pr.date_begin_str.d

PrRecent == {i \in PrNonFuture : ~PrStale(i)}

PrHasPrice(i) == ToFloat(pr.cands[i]["Unit_Price"]).ok

PrGap(i) == Abs(ToFloat(pr.cands[i]["Unit_Price"]).v - pr.chart_price)

\* i is at least as close to the reference price as j (no number: farthest)
PrAsClose(i, j) == ~PrHasPrice(j) \/ (PrHasPrice(i) /\ PrGap(i) <= PrGap(j))

\* i is the closest-price member of G, the first one in input order among equals
PrIsClosest(i, G) ==
  /\ i \in G
  /\ \A j \in G : PrAsClose(i, j)
  /\ \A j \in G : j < i => ~PrAsClose(j, i)

C5_FutureExcluded ==
  PrReturned
    => /\ pr.res.selected_row # NoRow => \E i \in PrNonFuture : PrSelected(i)
       /\ \A i \in 1..Len(pr.cands) : PrFuture(i) => ~PrSelected(i)
       /\ (PrAnswered /\ PrHasColumns /\ PrPassing # {} /\ PrNonFuture = {})
            => /\ pr.res.selected_row = NoRow
               /\ pr.res.status = St("No suitable PO found")
               /\ pr.res.api_price = Num(pr.chart_price)

C5_Witness ==
  /\ PrAnswered /\ PrHasColumns /\ pr.pc = "done"
  /\ \E i \in PrPassing, j \in PrPassing :
       /\ PrFuture(i) /\ i < j /\ PrSelected(j)
       /\ PrHasPrice(i) /\ PrGap(i) = 0 /\ PrGap(j) > 0

PrRecentDated == {i \in PrRecent : PrHasDate(i)}

\* the recent candidates sharing the maximum ship date, all of them when none has a date
PrRecentGroup ==
  IF PrRecentDated = {} THEN PrRecent
  ELSE {i \in PrRecentDated : \A j \in PrRecentDated : PrDate(j) <= PrDate(i)}

\* C6: when a non-future candidate is recent, the selection is the first
\* closest-price candidate among the recent ones on the maximum ship date (all
\* recent ones when none is dated), with status "Success", whatever older
\* candidates offer.
C6_RecentSelection ==
  (PrAnswered /\ PrHasColumns /\ PrRecent # {})
    => /\ \E i \in PrRecentGroup : PrIsClosest(i, PrRecentGroup) /\ PrSelected(i)
       /\ pr.res.status = St("Success")

C6_Witness ==
  /\ PrAnswered /\ PrHasColumns /\ pr.pc = "done" /\ pr.res.status = St("Success")
  /\ Cardinality(PrRecentGroup) >= 2
  /\ \E i \in PrRecentGroup, j \in PrNonFuture \ PrRecent :
       PrSelected(i) /\ PrHasPrice(j) /\ PrGap(j) < PrGap(i)

PrEarliestGroup == {i \in PrNonFuture : \A j \in PrNonFuture : PrDate(i) <= PrDate(j)}

\* C7: when every non-future candidate passing the filter is dated before the
\* target month start, the selection is the first closest-price candidate among
\* those on the earliest ship date and the status is "Old Price from" that
\* date, never "Success".
C7_StaleFallback ==
  (PrAnswered /\ PrHasColumns /\ PrNonFuture # {} /\ \A i \in PrNonFuture : PrStale(i))
    => /\ \E i \in PrEarliestGroup :
            /\ PrIsClosest(i, PrEarliestGroup) /\ PrSelected(i)
            /\ pr.res.status = [msg |-> "Old Price from", day |-> PrDate(i) \div TicksPerDay]
       /\ pr.res.status # St("Success")

C7_Witness ==
  /\ PrAnswered /\ PrHasColumns /\ pr.pc = "done"
  /\ PrNonFuture # {} /\ \A i \in PrNonFuture : PrStale(i)
  /\ Cardinality(PrEarliestGroup) >= 2
  /\ \E i \in PrEarliestGroup, j \in PrNonFuture \ PrEarliestGroup :
       PrSelected(i) /\ PrHasPrice(j) /\ PrGap(j) < PrGap(i)
  /\ pr.res.status.msg = "Old Price from"

\* the causes the call can end on without a candidate
PrNoCandidateCause ==
  \/ pr.resp # "200"
  \/ pr.cands = <<>> \/ pr.headers = <<>>
  \/ ~PrHasColumns
  \/ PrPassing = {}
  \/ PrNonFuture = {}

\* C8: a call that selects no candidate, whatever the cause, returns the
\* reference price it was given, an empty PO number and a non-empty status.
C8_NoSelectionKeepsChartPrice ==
  PrReturned
    => /\ PrNoCandidateCause => pr.res.selected_row = NoRow
       /\ pr.res.selected_row = NoRow
            => /\ pr.res.api_price = Num(pr.chart_price)
               /\ pr.res.po_no = Str(<<>>)
               /\ pr.res.status # St("")

C8_Witness ==
  /\ pr.pc = "done" /\ pr.resp = "200" /\ pr.cands # <<>> /\ pr.headers # <<>>
  /\ ~PrHasColumns
  /\ pr.res.selected_row = NoRow /\ pr.res.api_price = Num(pr.chart_price)
  /\ pr.res.status = St("PO API missing required columns")

\* C9: two runs on the same candidates, reference price, target date, customer
\* name, today and set of known names return the same (price, status, PO).
C9_Deterministic ==
  pr.pc = "again"
    => /\ pr.res.api_price = pr.res2.api_price
       /\ pr.res.status = pr.res2.status
       /\ pr.res.po_no = pr.res2.po_no

(***************************************************************************)
(* Excel reader: properties                                                *)
(***************************************************************************)
XlDone == xl.pc = "done"

\* the sheet has been read and has a main table
XlTabled == XlDone /\ xl.start_table_row # 0

XlHeader == header_values_of(xl.df[xl.start_table_row])

\* the trimmed text of the cell of row k in column col, empty without a column
XlCell(k, col) == IF col # 0 THEN Strip(PyStr(xl.df[k][col])) ELSE <<>>

XlCustomerText(k) == XlCell(k, col_index(XlHeader, TxtPlexCustomerCode))

XlArgOf(customer_text, n) ==
  customer_arg(customer_text, customer_names_of(customer_text)[n])

\* the customer token the n-th record of row k is extracted for
XlArg(k, n) == XlArgOf(XlCustomerText(k), n)

XlBlock(b) == xl.price_blocks[b]

XlPriceCol(b, k, n) ==
  select_price_column(XlBlock(b).header_values, XlBlock(b).part_col, XlArg(k, n))

\* blocks qualifying for row k and token n: header above the row, dated on or
\* before the as-of date, price column resolvable
XlQualifying(k, n) ==
  {b \in 1..Len(xl.price_blocks) :
     /\ XlBlock(b).header_row < k
     /\ XlBlock(b).date.some /\ XlBlock(b).date.d <= xl.today
     /\ XlPriceCol(b, k, n) # 0}

\* the row's part-number and price cells of block b are accepted by int() and float()
XlParses(b, k, n) ==
  /\ parse_int(xl.df[k][XlBlock(b).part_col]).ok
  /\ parse_price(xl.df[k][XlPriceCol(b, k, n)]).ok

XlUsable(k, n) == {b \in XlQualifying(k, n) : XlParses(b, k, n)}

\* rec carries the part number, price and effective date of block b
XlSourced(rec, b) ==
  /\ rec.part_number = parse_int(xl.df[rec.row][XlBlock(b).part_col]).v
  /\ rec.price.v = parse_price(xl.df[rec.row][XlPriceCol(b, rec.row, rec.token)]).v
  /\ rec.price.nan = parse_price(xl.df[rec.row][XlPriceCol(b, rec.row, rec.token)]).nan
  /\ rec.date = XlBlock(b).date.d

\* b has the latest date of S and is the first-discovered block of S with it
XlLatestFirst(b, S) ==
  /\ b \in S
  /\ \A c \in S : XlBlock(c).date.d <= XlBlock(b).date.d
  /\ \A c \in S : c < b => XlBlock(c).date.d < XlBlock(b).date.d

\* rec is read from the latest-dated, first-discovered block of S
XlSourcedFromLatest(rec, S) == \E b \in S : XlLatestFirst(b, S) /\ XlSourced(rec, b)

XlRecords == {xl.parts[i] : i \in 1..Len(xl.parts)}

XlDataRows == (xl.start_table_row + 1)..Len(xl.df)

XlTokenCount(k) == Len(customer_names_of(XlCustomerText(k)))

XlHasRecord(k, n) == \E rec \in XlRecords : rec.row = k /\ rec.token = n

\* the row's cells of block b hold a positive integer part number and a number
XlParsesStrictly(b, k, n) ==
  /\ parse_int(xl.df[k][XlBlock(b).part_col]).ok
  /\ parse_int(xl.df[k][XlBlock(b).part_col]).v > 0
  /\ parse_price(xl.df[k][XlPriceCol(b, k, n)]).ok
  /\ ~parse_price(xl.df[k][XlPriceCol(b, k, n)]).nan

\* C11: a (row, customer) pair whose latest-dated qualifying block has a part
\* number cell that is no positive integer or a price cell that is no number
\* yields no record; every record has a part number > 0 and the effective
\* date of the latest-dated qualifying block.
C11_UnparsedDropped ==
  XlTabled =>
    /\ \A k \in XlDataRows :
         \A n \in 1..XlTokenCount(k) :
           \A b \in XlQualifying(k, n) :
             XlLatestFirst(b, XlQualifying(k, n)) /\ ~XlParsesStrictly(b, k, n)
               => ~XlHasRecord(k, n)
    /\ \A rec \in XlRecords :
         /\ rec.part_number > 0
         /\ \E b \in XlQualifying(rec.row, rec.token) :
              /\ XlLatestFirst(b, XlQualifying(rec.row, rec.token))
              /\ rec.date = XlBlock(b).date.d

\* C12: no record takes its part number, price or effective date from a
\* block whose header row is above the primary header row.
C12_NoBlockAboveHeader ==
  XlTabled =>
    \A rec \in XlRecords :
      \A b \in XlUsable(rec.row, rec.token) :
        XlLatestFirst(b, XlUsable(rec.row, rec.token)) /\ XlSourced(rec, b)
          => XlBlock(b).header_row >= xl.start_table_row

\* the text of the n-th customer token of data row k
XlToken(k, n) == customer_names_of(XlCustomerText(k))[n]

XlHasComma(k) == Index(XlCustomerText(k), ",") # 0

XlLowerHeader(b) == LowerAll(XlBlock(b).header_values)

\* the first column right of block b's part column whose header satisfies P
XlFirstRight(b, P(_)) ==
  LET Right(j) == P(XlLowerHeader(b)[j])
  IN  FirstCol(XlBlock(b).part_col + 1, Len(XlLowerHeader(b)), Right)

\* equals "ddp price", else equals "fca price", else contains "ddp price",
\* else contains "fca price"
XlDefaultCol(b) ==
  LET IsDdp(h) == h = PRICE_COLUMN_PRIORITIES[1]
      IsFca(h) == h = PRICE_COLUMN_PRIORITIES[2]
      HasDdp(h) == IsSubstr(PRICE_COLUMN_PRIORITIES[1], h)
      HasFca(h) == IsSubstr(PRICE_COLUMN_PRIORITIES[2], h)
  IN  IF XlFirstRight(b, IsDdp) # 0 THEN XlFirstRight(b, IsDdp)
      ELSE IF XlFirstRight(b, IsFca) # 0 THEN XlFirstRight(b, IsFca)
      ELSE IF XlFirstRight(b, HasDdp) # 0 THEN XlFirstRight(b, HasDdp)
      ELSE XlFirstRight(b, HasFca)

\* the mapping entries whose key the token contains
XlMappings(token) ==
  {i \in 1..Len(CUSTOM_PRICE_COLUMN_MAP) :
     IsSubstr(CUSTOM_PRICE_COLUMN_MAP[i].key, Lower(token))}

\* the first column right of the part column whose header contains the label
\* mapped to the token, 0 when the token has no mapping key or no header has it
XlMappedCol(b, token) ==
  IF XlMappings(token) = {} THEN 0
  ELSE LET i == CHOOSE m \in XlMappings(token) : \A o \in XlMappings(token) : m <= o
           HasLabel(h) == IsSubstr(CUSTOM_PRICE_COLUMN_MAP[i].header, h)
       IN  XlFirstRight(b, HasLabel)

XlTokenCol(b, token) ==
  IF XlMappedCol(b, token) # 0 THEN XlMappedCol(b, token) ELSE XlDefaultCol(b)

\* every record of row k, token n reads its price in column Col(b) of a block b
XlReadsPriceIn(rec, b, col) ==
  /\ XlBlock(b).header_row < rec.row
  /\ rec.date = XlBlock(b).date.d
  /\ col # 0
  /\ rec.price.v = parse_price(xl.df[rec.row][col]).v
  /\ rec.price.nan = parse_price(xl.df[rec.row][col]).nan

\* C13 as stated: for every token, the single token of a cell without a comma
\* included, the price column of a block is the mapped column when the token
\* contains a mapping key and a header to the right contains the mapped label,
\* else the default column; a block without one does not qualify.
C13_MappedColumnForEveryToken ==
  XlTabled =>
    /\ \A k \in XlDataRows : \A n \in 1..XlTokenCount(k) : \A b \in 1..Len(xl.price_blocks) :
         XlPriceCol(b, k, n) = XlTokenCol(b, XlToken(k, n))
    /\ \A rec \in XlRecords : \E b \in 1..Len(xl.price_blocks) :
         XlReadsPriceIn(rec, b, XlTokenCol(b, XlToken(rec.row, rec.token)))

\* the column the code reads: the mapping is consulted only for the tokens of
\* a customer cell that contains a comma
XlCommaTokenCol(b, k, n) ==
  IF XlHasComma(k) THEN XlTokenCol(b, XlToken(k, n)) ELSE XlDefaultCol(b)

\* C13 amended: for every token of a customer cell that contains a comma the
\* price column of a block is the mapped column (token contains a mapping key
\* and a header right of the part column contains the mapped label, first such
\* column), else the default column; for a customer cell without a comma it is
\* always the default column; a block with no such column sources no record.
C13_MappedColumnForCommaTokens ==
  XlTabled =>
    /\ \A k \in XlDataRows : \A n \in 1..XlTokenCount(k) : \A b \in 1..Len(xl.price_blocks) :
         XlPriceCol(b, k, n) = XlCommaTokenCol(b, k, n)
    /\ \A rec \in XlRecords : \E b \in 1..Len(xl.price_blocks) :
         XlReadsPriceIn(rec, b, XlCommaTokenCol(b, rec.row, rec.token))

\* a record of a comma row whose price is read in the mapped column of its
\* block, which is not the block's default column, next to a record of the
\* same row read in the default column
C13_Witness ==
  /\ XlTabled
  /\ \E rec \in XlRecords, other \in XlRecords, b \in 1..Len(xl.price_blocks) :
       /\ XlHasComma(rec.row) /\ other.row = rec.row /\ other.token # rec.token
       /\ XlMappedCol(b, XlToken(rec.row, rec.token)) # 0
       /\ XlMappedCol(b, XlToken(rec.row, rec.token)) # XlDefaultCol(b)
       /\ XlLatestFirst(b, XlUsable(rec.row, rec.token)) /\ XlSourced(rec, b)
       /\ XlLatestFirst(b, XlUsable(other.row, other.token)) /\ XlSourced(other, b)
       /\ XlPriceCol(b, other.row, other.token) = XlDefaultCol(b)
       /\ rec.price # other.price

\* the records of data row k, in the order of the list
XlRowRecords(k) == SelectSeq(xl.parts, LAMBDA rec : rec.row = k)

\* the trimmed non-empty comma-separated tokens of the customer cell of row k,
\* the cell itself when it has no comma
XlNonEmptyTokens(k) ==
  LET pieces == Split(XlCustomerText(k))
      trimmed == [i \in 1..Len(pieces) |-> Strip(pieces[i])]
  IN  IF XlHasComma(k) THEN SelectSeq(trimmed, LAMBDA c : c # <<>>)
      ELSE <<Strip(XlCustomerText(k))>>

XlSameMetadata(r1, r2) ==
  /\ r1.program = r2.program /\ r1.pcn = r2.pcn
  /\ r1.oem_plant = r2.oem_plant /\ r1.description = r2.description

\* C14: a data row never yields more records than it has non-empty customer
\* tokens (one for a cell without a comma); when each of its N tokens has a
\* qualifying block with parseable cells it yields exactly N records in token
\* order, record i named after the trimmed i-th token with the price of the
\* column selected for that token, all sharing program, PCN, OEM plant and
\* description.
C14_MultiCustomerSplit ==
  XlTabled =>
    \A k \in XlDataRows :
      LET recs == XlRowRecords(k)
          tokens == XlNonEmptyTokens(k)
      IN  /\ Len(recs) <= Len(tokens)
          /\ (\A n \in 1..Len(tokens) : XlUsable(k, n) # {})
               => /\ Len(recs) = Len(tokens)
                  /\ \A i \in 1..Len(recs) :
                       /\ recs[i].customer = tokens[i]
                       /\ \E b \in XlUsable(k, i) :
                            /\ XlLatestFirst(b, XlUsable(k, i))
                            /\ XlReadsPriceIn(recs[i], b, XlCommaTokenCol(b, k, i))
                       /\ XlSameMetadata(recs[i], recs[1])

\* a row with two customers gives two records with different customers and
\* different prices, the cell holding an empty token between them
C14_Witness ==
  /\ XlTabled
  /\ \E k \in XlDataRows :
       /\ Len(Split(XlCustomerText(k))) = 3 /\ Len(XlNonEmptyTokens(k)) = 2
       /\ Len(XlRowRecords(k)) = 2
       /\ XlRowRecords(k)[1].customer = <<"L", "e", "a", "r">>
       /\ XlRowRecords(k)[2].customer = <<"G", "M">>
       /\ XlRowRecords(k)[1].price # XlRowRecords(k)[2].price

\* row i of the sheet has a cell reading "part number" and a cell reading
\* "part description" once trimmed and lower-cased
XlIsHeaderRow(i) ==
  /\ \E j \in 1..Len(xl.df[i]) : Lower(Strip(PyStr(xl.df[i][j]))) = TxtPartNumber
  /\ \E j \in 1..Len(xl.df[i]) : Lower(Strip(PyStr(xl.df[i][j]))) = TxtPartDescription

\* the records of the sheets that follow are at the tail of the returned list
XlRestProcessed ==
  /\ Len(xl.all_parts) = Len(xl.parts) + 1
  /\ SubSeq(xl.all_parts, 1, Len(xl.parts)) = xl.parts
  /\ xl.all_parts[Len(xl.all_parts)].part_number = 205
  /\ xl.all_parts[Len(xl.all_parts)].date = 3

\* C20: the primary header row is the first row with both a "part number" and
\* a "part description" cell, however many rows precede it; with no such row
\* the sheet gives no record and the following sheets are still processed.
C20_HeaderDiscovery ==
  XlDone =>
    /\ (\E i \in 1..Len(xl.df) : XlIsHeaderRow(i))
         => /\ xl.start_table_row \in 1..Len(xl.df)
            /\ XlIsHeaderRow(xl.start_table_row)
            /\ \A i \in 1..(xl.start_table_row - 1) : ~XlIsHeaderRow(i)
    /\ (\A i \in 1..Len(xl.df) : ~XlIsHeaderRow(i))
         => xl.start_table_row = 0 /\ xl.parts = <<>>
    /\ XlRestProcessed

\* the header is found below a row that has a "part number" cell but no
\* "part description" cell, and the record of the row under it is extracted
C20_Witness ==
  /\ XlTabled
  /\ xl.start_table_row = 4
  /\ \E i \in 1..3 : TxtPartNumber \in Range(LowerAll(header_values_of(xl.df[i])))
  /\ xl.parts # <<>>
  /\ XlRestProcessed

(***************************************************************************)
(* A run: properties                                                       *)
(***************************************************************************)
\* the parts of the current file processed so far, with what each did
RunProcessed == {run.processed[i] : i \in 1..Len(run.processed)}

RunPartOf(e) == run.parts[e.idx]

RunCode(e) == Lower(Strip(RunPartOf(e).customer))

RunAsked(e, field) == \E i \in 1..Len(e.id_queries) : e.id_queries[i].lookup_field = field

\* the first query was answered (no timeout, no exception)
RunFirstAnswered == run.idsrc.by_part_no.kind \in {"200", "500"}

\* the candidates the first query returned
RunFirstCandidates ==
  IF run.idsrc.by_part_no.kind = "200" /\ run.idsrc.by_part_no.headers # <<>>
  THEN run.idsrc.by_part_no.cands ELSE <<>>

\* the first query's answer holds a candidate of the part's customer, with
\* all the required columns
RunFirstSelects(e) ==
  /\ run.idsrc.by_part_no.kind = "200"
  /\ IdRequired \subseteq Range(run.idsrc.by_part_no.headers)
  /\ RunCode(e) # <<>>
  /\ \E i \in 1..Len(run.idsrc.by_part_no.cands) :
       Lower(Strip(PyStr(run.idsrc.by_part_no.cands[i]["Customer_Code"]))) = RunCode(e)

\* C15 as stated: the query by Customer_Part_No is issued only when the query
\* by Part_No returned no candidate at all.
C15_RetryOnlyWithoutCandidates ==
  \A e \in RunProcessed :
    RunAsked(e, "Customer_Part_No") => RunFirstCandidates = <<>>

\* C15 amended: the query by Customer_Part_No is issued exactly when the
\* query by Part_No was issued, was answered and gave no identifier: no
\* candidate, a non-200 response, a required column missing, or no candidate
\* of the part's customer (always so with an empty customer code); it is not
\* issued after a Part_No query that selected an identifier or that raised.
C15_RetryWithoutIdentifier ==
  \A e \in RunProcessed :
    /\ RunAsked(e, "Customer_Part_No") => RunAsked(e, "Part_No")
    /\ Len(e.id_queries) <= 2
    /\ RunAsked(e, "Part_No")
         => (RunAsked(e, "Customer_Part_No") <=> RunFirstAnswered /\ ~RunFirstSelects(e))

\* the Part_No query returned candidates, all of another customer, and the
\* Customer_Part_No query then gave the identifier
C15_Witness ==
  \E e \in RunProcessed :
    /\ RunFirstCandidates # <<>>
    /\ RunCode(e) # <<>>
    /\ e.id_queries = <<[part_no |-> <<"7">>, lookup_field |-> "Part_No"],
                        [part_no |-> <<"7">>, lookup_field |-> "Customer_Part_No"]>>
    /\ e.returned /\ e.result.part_key = Str(<<"K", "2">>)

RunReports == {run.reports[i] : i \in 1..Len(run.reports)}

\* C16: no failure of one record or of one input file aborts the run: main
\* never ends on an exception, and when it ends every part of every readable
\* file has been processed and the file's results written.
C16_FailureIsolation ==
  /\ run.pc # "aborted"
  /\ run.pc = "done"
       => \A f \in 1..Len(run.files) :
            run.files[f].readable
              => \E r \in RunReports :
                   r.file = f /\ Len(r.processed) = Len(run.files[f].parts)

\* the entries of a list of processed parts whose credentials resolved
RunWithCredentials(processed, parts) ==
  SelectSeq(processed, LAMBDA e : get_auth_for_pcn(parts[e.idx].pcn, run.credentials))

\* C17 as stated: every part whose credentials resolve has exactly one entry
\* in the results written for its file, in extraction order; an entry without
\* identifier has a non-empty status and the chart price as resolved price.
C17_EveryRecordReported ==
  \A r \in RunReports :
    LET expected == RunWithCredentials(r.processed, r.parts)
    IN  /\ Len(r.results) = Len(expected)
        /\ \A i \in 1..Len(r.results) :
             /\ expected[i].returned /\ r.results[i] = expected[i].result
             /\ ~Truthy(r.results[i].part_key)
                  => /\ r.results[i].status.msg # ""
                     /\ r.results[i].plex_price = Num(r.results[i].chart_price)

\* an identity query of the part timed out
RunTimedOut(e) ==
  \/ RunAsked(e, "Part_No") /\ run.idsrc.by_part_no.kind = "timeout"
  \/ RunAsked(e, "Customer_Part_No") /\ run.idsrc.by_customer_part_no.kind = "timeout"

\* C17 amended: the results written for a file hold, in extraction order,
\* exactly one entry for every part whose credentials resolve and whose
\* identifier is resolved or whose identity query timed out; the latter
\* entries have status "Timed Out", the chart price and delta 0.  A part with
\* no identifier for another reason gets the status "No part found (no
\* Part_Key)" and has no entry in the results.
C17_ResolvedOrTimedOutReported ==
  \A r \in RunReports :
    LET expected == SelectSeq(RunWithCredentials(r.processed, r.parts),
                              LAMBDA e : Truthy(e.result.part_key) \/ RunTimedOut(e))
        omitted == {r.processed[i] : i \in 1..Len(r.processed)} \ Range(expected)
    IN  /\ Len(r.results) = Len(expected)
        /\ \A i \in 1..Len(r.results) :
             /\ r.results[i] = expected[i].result
             /\ ~Truthy(r.results[i].part_key)
                  => /\ r.results[i].status = St("Timed Out")
                     /\ r.results[i].plex_price = Num(r.results[i].chart_price)
                     /\ r.results[i].delta = 0
        /\ \A e \in omitted :
             e.returned => ~Truthy(e.result.part_key) /\ e.result.status = NoPartFound

\* a file's results written with the entry of a priced part and without the
\* part that follows it, for which no identifier was found
C17_Witness ==
  \E r \in RunReports :
    /\ Len(r.results) = 1 /\ Len(r.processed) = 2
    /\ r.results[1] = r.processed[1].result
    /\ Truthy(r.results[1].part_key)
    /\ r.processed[2].returned /\ r.processed[2].result.status = NoPartFound

\* C18: after a crash during a save of the part key cache, the next run
\* loads every entry the file held before that save began.
C18_CrashSafeCache ==
  run.pc = "restarted"
    => \A k \in DOMAIN run.disk_before.cache :
         k \in DOMAIN run.part_key_cache /\ run.part_key_cache[k] = run.disk_before.cache[k]

\* the price key of a processed part with an identifier
RunPriceKey(e) ==
  PriceKey(e.result.part_key, RunCode(e), RunPartOf(e).pcn,
           compute_effective_month_start(RunPartOf(e).date))

\* C19: in a run each price key (part key, customer code, PCN, month start)
\* is queried at most once over all input files, and every record with an
\* identifier carries the (price, status, PO) stored under its key.
C19_PriceQueriedOncePerRun ==
  /\ \A i \in 1..Len(run.price_queries) :
       \A j \in 1..Len(run.price_queries) :
         run.price_queries[i] = run.price_queries[j] => i = j
  /\ \A e \in RunProcessed :
       e.returned /\ Truthy(e.result.part_key)
         => /\ RunPriceKey(e) \in DOMAIN run.price_lookup_cache
            /\ run.price_lookup_cache[RunPriceKey(e)]
                 = Triple(e.result.plex_price, e.result.status, e.result.po_no)

\* the results reported so far: those written for the files read and those
\* collected for the current file
RunReported ==
  UNION {Range(r.results) : r \in RunReports} \cup Range(run.results)

\* the status is neither "Success" nor "Old Price from <date>"
RunUnpriced(result) == result.status.msg \notin {"Success", "Old Price from"}

\* C21: every reported record whose status is neither "Success" nor "Old
\* Price from <date>" has its own chart price as resolved price and delta 0,
\* a record served from the price cache included.
C21_UnpricedKeepsChartPrice ==
  \A result \in RunReported :
    RunUnpriced(result)
      => result.plex_price = Num(result.chart_price) /\ result.delta = 0

\* the part number text and the normalised customer code of a part
RunPartNo(part) == PyStr(Num(part.part_number))

RunCodeOf(part) == Lower(Strip(part.customer))

\* the cache keys of a part: its (part number, customer code) key, and the
\* bare part number when the customer code is empty
RunOwnKeys(part) ==
  {build_cache_key(RunPartNo(part), RunCodeOf(part))}
    \cup (IF RunCodeOf(part) = <<>> THEN {RunPartNo(part)} ELSE {})

\* the cache holds an identifier for the part
RunCached(cache, part) == \E k \in RunOwnKeys(part) : Truthy(dict_get(cache, k))

\* what the step that processed part did to the identity cache and its file:
\* e is the entry logged for the part, before and after are the caches
RunCacheFrame(part, e, before, after, disk_before, disk_after) ==
  /\ e.price_queries # <<>> => e.returned /\ Truthy(e.result.part_key)
  /\ ~e.returned => after = before /\ disk_after = disk_before /\ e.id_queries = <<>>
  /\ e.returned /\ ~Truthy(e.result.part_key)
       => after = before /\ disk_after = disk_before
  /\ e.returned /\ RunCached(before, part)
       => /\ e.id_queries = <<>>
          /\ after = before /\ disk_after = disk_before
          /\ \E k \in RunOwnKeys(part) : e.result.part_key = before[k]
  /\ e.returned /\ ~RunCached(before, part) => e.id_queries # <<>>
  /\ e.returned /\ Truthy(e.result.part_key) /\ ~RunCached(before, part)
       => /\ DOMAIN after = DOMAIN before \cup RunOwnKeys(part)
          /\ \A k \in RunOwnKeys(part) : after[k] = e.result.part_key
          /\ \A k \in DOMAIN before : after[k] = before[k]
          /\ disk_after = DiskOf(after)

\* C22: a lookup that ends without an identifier leaves the identity cache
\* and its file unchanged; a cache hit issues no identity query and writes
\* nothing; a successful lookup adds the entry of its own (part number,
\* customer code) key, the bare part number only with an empty customer code,
\* changes no entry already present and saves the cache; no price query is
\* issued for a record without an identifier.
C22_IdentityCacheFrame ==
  [][run.pc = "parts" /\ run'.pc = "parts" /\ run'.p = run.p + 1
       => RunCacheFrame(run.parts[run.p], run'.processed[Len(run'.processed)],
                        run.part_key_cache, run'.part_key_cache, run.disk, run'.disk)]_vars

\* a file whose first record found no identifier and left the cache as it
\* was and whose second record looked its identifier up and stored it, then
\* a record of the next file served from the cache without a query
C22_Witness ==
  /\ Len(run.reports) = 1 /\ Len(run.processed) = 1
  /\ LET first == run.reports[1].processed
         hit == run.processed[1]
     IN  /\ Len(first) = 2
         /\ first[1].returned /\ ~Truthy(first[1].result.part_key)
         /\ first[1].id_queries # <<>>
         /\ first[2].cache_before = first[1].cache_before
         /\ first[2].returned /\ Truthy(first[2].result.part_key)
         /\ first[2].id_queries # <<>> /\ first[2].price_queries # <<>>
         /\ hit.cache_before # first[2].cache_before
         /\ DOMAIN hit.cache_before
              = DOMAIN first[2].cache_before \cup {<<"7", ":", ":", "l">>}
         /\ hit.returned /\ hit.id_queries = <<>>
         /\ hit.result.part_key = hit.cache_before[<<"7", ":", ":", "l">>]
         /\ run.part_key_cache = hit.cache_before
         /\ run.disk = DiskOf(hit.cache_before)

====
